---- MODULE Spec2Model ----
(***************************************************************************)
(* A model of the sprite-sheet frame editor (FrameEditor) and of the       *)
(* animation preview (SpritePreview) of spritegen-ai.                      *)
(*                                                                         *)
(* An image is a record [w, h, pix]: pix maps the pixel <<x, y>> to an     *)
(* RGBA colour <<r, g, b, a>>.  A data URL is modelled by the image it     *)
(* encodes, so two URLs are equal exactly when their rasters are.          *)
(* Cell sizes are whole numbers of pixels and the width and height of a    *)
(* cell have the same parity, so that a rotation by a multiple of 90       *)
(* degrees about the cell centre maps pixels onto pixels.                  *)
(***************************************************************************)
EXTENDS Integers, Sequences, FiniteSets, TLC

(* ----------------------------- bounds --------------------------------- *)

\* user operations explored in one editing session
MaxSteps == 4

\* sheet contents explored: patterns 0..MaxPattern (see KindOfCell)
MaxPattern == 1

\* preview: the numbers typed into the Rows and Cols inputs are -1..MaxDim
MaxDim == 2

\* preview: user operations explored
MaxPreviewSteps == 4

\* the largest tolerance the classifier is asked at
MaxTol == 41

\* animation: milliseconds of playback followed
MaxElapsed == 1000

\* grid addressing: rows and cols are 1..MaxGrid
MaxGrid == 4

\* playback: uses of the preview's controls while the loop is followed
MaxControlSteps == 2

\* bounds scan: the rendered cells scanned measure up to MaxCell x MaxCell
MaxCell == 3

(* ------------------------- program constants -------------------------- *)

\* const padding = 4
padding == 4

\* const threshold = 40
threshold == 40

\* [1, 2, 3].map(() => regenerateSingleFrame(...))
NumVariations == 3

(* ------------------------------ values -------------------------------- *)

\* null, for a state that holds a number or null
NULL == -1

NoImage == [w |-> 0, h |-> 0, pix |-> <<>>]

White == <<255, 255, 255, 255>>
Faint == <<230, 230, 230, 255>>
Black == <<0, 0, 0, 255>>
\* a cleared canvas pixel: transparent black
Clear == <<0, 0, 0, 0>>

Abs(n) == IF n < 0 THEN -n ELSE n

Min(a, b) == IF a < b THEN a ELSE b

Max(a, b) == IF a > b THEN a ELSE b

Coords(w, h) == (0 .. w - 1) \X (0 .. h - 1)

\* the sheets explored: <<rows, cols, frameW, frameH>>
Geometries == {<<2, 2, 2, 2>>, <<2, 1, 10, 2>>}

\* The content of source cell i of the sheet of pattern p:
\*   0: background with one near-background pixel (no content)
\*   1: a one-pixel sprite at (1, 1)
\*   2: a sprite three pixels wide that touches the cell origin
\* Pattern 0 is a sheet without any content; the others mix the three kinds.
KindOfCell(p, i) == (p * (i + 1)) % 3

CellPixel(kind, x, y) ==
    CASE kind = 0 -> IF x = 1 /\ y = 0 THEN Faint ELSE White
      [] kind = 1 -> IF x = 1 /\ y = 1 THEN Black ELSE White
      [] OTHER    -> IF x <= 2 /\ y = 0 THEN Black ELSE White

\* the sheet of pattern p on a rows x cols grid of fw x fh cells
Sheet(p, rows, cols, fw, fh) ==
    [w |-> cols * fw, h |-> rows * fh,
     pix |-> [q \in Coords(cols * fw, rows * fh) |->
                CellPixel(KindOfCell(p, (q[2] \div fh) * cols + (q[1] \div fw)),
                          q[1] % fw, q[2] % fh)]]

(* ---------------------------- frame records --------------------------- *)

NoOverride == [for |-> -1, req |-> 0]

\* scale is a number moved in steps of 0.1: it is held in tenths, so that
\* 10 is the factor 1, 5 the factor 0.5 and 20 the factor 2.0
ScaleOne == 10

ScaleMin == 5

ScaleMax == 20

ScaleStep == 1

\* setFrames(Array.from({ length: totalFrames }, (_, i) => ({ id: i, ... })))
IdentityFrame(i) ==
    [id |-> i, rotation |-> 0, scale |-> ScaleOne, flipH |-> FALSE,
     isDeleted |-> FALSE, overrideImage |-> NoOverride]

IdentityFrames(n) == [i \in 1 .. n |-> IdentityFrame(i - 1)]

(* --------------------------- render pipeline -------------------------- *)

\* The source-cell pixel <<u, v>> that the transform
\*   translate(centre); rotate(rotation); scale(flipH ? -1 : 1, 1); scale(1, 1)
\* followed by drawImage(src, -fw/2, -fh/2, fw, fh) puts on the pixel <<x, y>>
\* (relative to the top left corner of the destination cell).  The result may
\* lie outside the source cell: then nothing is drawn on <<x, y>>.
InvMap(rotation, flipH, fw, fh, x, y) ==
    LET uv == CASE rotation = 0   -> <<x, y>>
                [] rotation = 90  -> <<y + (fw - fh) \div 2, (fw + fh) \div 2 - 1 - x>>
                [] rotation = 180 -> <<fw - 1 - x, fh - 1 - y>>
                [] OTHER          -> <<(fw + fh) \div 2 - 1 - y, x - (fw - fh) \div 2>>
    IN  <<IF flipH THEN fw - 1 - uv[1] ELSE uv[1], uv[2]>>

InCell(uv, fw, fh) == uv[1] >= 0 /\ uv[1] < fw /\ uv[2] >= 0 /\ uv[2] < fh

\* The raster an AI variation decodes to, already stretched to one cell by
\* drawImage(oImg, -fw/2, -fh/2, fw, fh): request r draws one dark pixel.
OverridePixel(ov, u, v) == IF u = ov.req % 2 /\ v = 1 THEN Black ELSE White

\* overrideImages: Map<id, image>, filled for frames with an override that
\* are not deleted; a later frame with the same id replaces an earlier one.
OverrideImages(fs) ==
    LET with == {i \in 1 .. Len(fs) :
                   fs[i].overrideImage # NoOverride /\ ~fs[i].isDeleted}
    IN  [id \in {fs[i].id : i \in with} |->
           fs[CHOOSE i \in with : /\ fs[i].id = id
                                  /\ \A j \in with : fs[j].id = id => j <= i].overrideImage]

\* const srcCol = frame.id % cols
SrcCol(id, cols) == id % cols

\* mutant of SrcRow: the quotient is taken of the one-based index
SrcRowOneBased(id, cols) == (id + 1) \div cols

\* const srcRow = Math.floor(frame.id / cols)
SrcRow(id, cols) == id \div cols

\* what drawImage reads for the frame at <<u, v>> of its source cell
FrameSourcePixel(img, cols, fw, fh, ovs, frame, u, v) ==
    IF frame.id \in DOMAIN ovs
    THEN OverridePixel(ovs[frame.id], u, v)
    ELSE LET sx == SrcCol(frame.id, cols) * fw + u
             sy == SrcRow(frame.id, cols) * fh + v
         IN  IF <<sx, sy>> \in DOMAIN img.pix THEN img.pix[<<sx, sy>>] ELSE Clear

\* the colour the frame's draw puts on <<x, y>> (cell-relative), Clear if none
DrawnPixel(img, cols, fw, fh, ovs, frame, x, y) ==
    LET uv == InvMap(frame.rotation, frame.flipH, fw, fh, x, y)
    IN  IF InCell(uv, fw, fh)
        THEN FrameSourcePixel(img, cols, fw, fh, ovs, frame, uv[1], uv[2])
        ELSE Clear

\* renderFrameToTemp: clearRect, then the transformed draw, clipped by the
\* fw x fh scratch canvas
RenderFrameToTemp(img, cols, fw, fh, ovs, frame) ==
    [q \in Coords(fw, fh) |-> DrawnPixel(img, cols, fw, fh, ovs, frame, q[1], q[2])]

(* ------------------------------ Save ---------------------------------- *)

RECURSIVE SaveLoopByArrayIndex(_, _, _)
\* mutant of SaveLoop: the destination is the frame's array index, so that a
\* deleted frame leaves its cell empty
SaveLoopByArrayIndex(fs, i, packedIndex) ==
    IF i > Len(fs) THEN <<>>
    ELSE IF fs[i].isDeleted THEN SaveLoopByArrayIndex(fs, i + 1, packedIndex)
    ELSE <<[cell |-> i - 1, index |-> i]>> \o SaveLoopByArrayIndex(fs, i + 1, packedIndex)

RECURSIVE SaveLoop(_, _, _)
\* frames.forEach: deleted frames are skipped, the others are drawn at the
\* cell packedIndex, which advances only for a drawn frame.  The result is the
\* list of draws [cell, index] in the order they are made.
SaveLoop(fs, i, packedIndex) ==
    IF i > Len(fs) THEN <<>>
    ELSE IF fs[i].isDeleted THEN SaveLoop(fs, i + 1, packedIndex)
    ELSE <<[cell |-> packedIndex, index |-> i]>> \o SaveLoop(fs, i + 1, packedIndex + 1)

SaveDraws(fs) == SaveLoop(fs, 1, 0)

RECURSIVE SavePixel(_, _, _, _, _, _, _, _, _)
\* the colour of pixel q of the save canvas after the first k draws: the
\* canvas starts transparent and a draw is not clipped to its cell
SavePixel(img, cols, fw, fh, ovs, fs, draws, k, q) ==
    IF k = 0 THEN Clear
    ELSE LET d  == draws[k]
             cx == (d.cell % cols) * fw
             cy == (d.cell \div cols) * fh
             c  == DrawnPixel(img, cols, fw, fh, ovs, fs[d.index], q[1] - cx, q[2] - cy)
         IN  IF c[4] = 255 THEN c
             ELSE SavePixel(img, cols, fw, fh, ovs, fs, draws, k - 1, q)

\* handleSave's canvas: canvas.width = img.width, canvas.height = img.height
SaveCanvas(img, rows, cols, fs) ==
    LET fw    == img.w \div cols
        fh    == img.h \div rows
        ovs   == OverrideImages(fs)
        draws == SaveDraws(fs)
    IN  [w |-> img.w, h |-> img.h,
         pix |-> [q \in Coords(img.w, img.h) |->
                    SavePixel(img, cols, fw, fh, ovs, fs, draws, Len(draws), q)]]

(* --------------------------- Repack & Center -------------------------- *)

\* mutant of IsBackgroundAt: a larger tolerance accepts less
IsBackgroundAtShrinking(c, bgPixel, tol) ==
    /\ Abs(c[1] - bgPixel[1]) + tol < 2 * threshold
    /\ Abs(c[2] - bgPixel[2]) + tol < 2 * threshold
    /\ Abs(c[3] - bgPixel[3]) + tol < 2 * threshold

\* the body of isBackground, with the tolerance it compares against as a
\* parameter: every channel strictly closer than tol to bgPixel
IsBackgroundAt(c, bgPixel, tol) ==
    /\ Abs(c[1] - bgPixel[1]) < tol
    /\ Abs(c[2] - bgPixel[2]) < tol
    /\ Abs(c[3] - bgPixel[3]) < tol

\* isBackground(r, g, b): const threshold = 40
IsBackground(c, bgPixel) == IsBackgroundAt(c, bgPixel, threshold)

SetMin(S) == CHOOSE x \in S : \A y \in S : x <= y

SetMax(S) == CHOOSE x \in S : \A y \in S : y <= x

\* the pixels the bounds scan visits: for y < frameH, for x < frameW
ScannedPixels(fw, fh) == Coords(fw, fh)

NoBounds == [x |-> 0, y |-> 0, w |-> 0, h |-> 0, hasContent |-> FALSE]

\* the per-frame scan for minX, maxX, minY, maxY over non-background pixels
ContentBounds(data, fw, fh, bgPixel) ==
    LET content == {q \in ScannedPixels(fw, fh) : ~IsBackground(data[q], bgPixel)}
        minX == SetMin({q[1] : q \in content})
        maxX == SetMax({q[1] : q \in content})
        minY == SetMin({q[2] : q \in content})
        maxY == SetMax({q[2] : q \in content})
    IN  IF content = {} THEN NoBounds
        ELSE [x |-> minX, y |-> minY, w |-> maxX - minX + 1, h |-> maxY - minY + 1,
              hasContent |-> TRUE]

\* frames.find(f => !f.isDeleted) || frames[0]
FirstVisibleFrame(fs) ==
    IF \E i \in 1 .. Len(fs) : ~fs[i].isDeleted
    THEN fs[SetMin({i \in 1 .. Len(fs) : ~fs[i].isDeleted})]
    ELSE fs[1]

\* frameBounds: a deleted frame gets the empty bounds without being rendered
FrameBounds(temps, fs, fw, fh, bgPixel) ==
    [i \in 1 .. Len(fs) |->
       IF fs[i].isDeleted THEN NoBounds ELSE ContentBounds(temps[i], fw, fh, bgPixel)]

\* mutant of OutputCell: the padded size is not clamped to the original cell
OutputCellNoClamp(frameBounds, fw, fh) ==
    LET found == {i \in DOMAIN frameBounds : frameBounds[i].hasContent}
        mw0 == IF found = {} THEN 0 ELSE SetMax({frameBounds[i].w : i \in found})
        mh0 == IF found = {} THEN 0 ELSE SetMax({frameBounds[i].h : i \in found})
        mw  == IF mw0 = 0 THEN fw ELSE mw0
        mh  == IF mw0 = 0 THEN fh ELSE mh0
    IN  [w |-> mw + padding * 2, h |-> mh + padding * 2]

\* the largest content width (height) found, then the fallback and the padding
OutputCell(frameBounds, fw, fh) ==
    LET found == {i \in DOMAIN frameBounds : frameBounds[i].hasContent}
        mw0 == IF found = {} THEN 0 ELSE SetMax({frameBounds[i].w : i \in found})
        mh0 == IF found = {} THEN 0 ELSE SetMax({frameBounds[i].h : i \in found})
        mw  == IF mw0 = 0 THEN fw ELSE mw0
        mh  == IF mw0 = 0 THEN fh ELSE mh0
    IN  [w |-> Min(fw, mw + padding * 2), h |-> Min(fh, mh + padding * 2)]

RECURSIVE PackLoopByArrayIndex(_, _, _, _, _, _)
\* mutant of PackLoop: the destination cell is the frame's array index
PackLoopByArrayIndex(fs, frameBounds, cols, cell, i, packedIndex) ==
    IF i > Len(fs) THEN <<>>
    ELSE IF fs[i].isDeleted \/ ~frameBounds[i].hasContent
         THEN PackLoopByArrayIndex(fs, frameBounds, cols, cell, i + 1, packedIndex)
    ELSE LET cellX == ((i - 1) % cols) * cell.w
             cellY == ((i - 1) \div cols) * cell.h
         IN  <<[cell |-> i - 1, index |-> i,
                destX2 |-> 2 * cellX + (cell.w - frameBounds[i].w),
                destY2 |-> 2 * cellY + (cell.h - frameBounds[i].h)]>>
             \o PackLoopByArrayIndex(fs, frameBounds, cols, cell, i + 1, packedIndex)

RECURSIVE PackLoopFromCentre(_, _, _, _, _, _)
\* mutant of PackLoop: the crop's corner, not its centre, is put on the
\* centre of the cell
PackLoopFromCentre(fs, frameBounds, cols, cell, i, packedIndex) ==
    IF i > Len(fs) THEN <<>>
    ELSE IF fs[i].isDeleted \/ ~frameBounds[i].hasContent
         THEN PackLoopFromCentre(fs, frameBounds, cols, cell, i + 1, packedIndex)
    ELSE LET cellX == (packedIndex % cols) * cell.w
             cellY == (packedIndex \div cols) * cell.h
         IN  <<[cell |-> packedIndex, index |-> i,
                destX2 |-> 2 * cellX + cell.w,
                destY2 |-> 2 * cellY + cell.h]>>
             \o PackLoopFromCentre(fs, frameBounds, cols, cell, i + 1, packedIndex + 1)

RECURSIVE PackLoop(_, _, _, _, _, _)
\* frames.forEach((frame, i) => ...): a deleted frame and a frame without
\* content are skipped; the others are drawn, centred, in the cell packedIndex.
\* destX2 and destY2 are twice destX and destY (which may end in .5).
PackLoop(fs, frameBounds, cols, cell, i, packedIndex) ==
    IF i > Len(fs) THEN <<>>
    ELSE IF fs[i].isDeleted \/ ~frameBounds[i].hasContent
         THEN PackLoop(fs, frameBounds, cols, cell, i + 1, packedIndex)
    ELSE LET cellX == (packedIndex % cols) * cell.w
             cellY == (packedIndex \div cols) * cell.h
         IN  <<[cell |-> packedIndex, index |-> i,
                destX2 |-> 2 * cellX + (cell.w - frameBounds[i].w),
                destY2 |-> 2 * cellY + (cell.h - frameBounds[i].h)]>>
             \o PackLoop(fs, frameBounds, cols, cell, i + 1, packedIndex + 1)

RECURSIVE PackPixel(_, _, _, _, _, _)
\* the colour of pixel q of the new sheet after the first k draws over the
\* background fill.  A destination that ends in .5 is rasterised on the pixel
\* grid at the lower whole pixel.
PackPixel(temps, frameBounds, draws, fill, k, q) ==
    IF k = 0 THEN fill
    ELSE LET d  == draws[k]
             b  == frameBounds[d.index]
             dx == d.destX2 \div 2
             dy == d.destY2 \div 2
             in == q[1] >= dx /\ q[1] < dx + b.w /\ q[2] >= dy /\ q[2] < dy + b.h
             c  == IF in THEN temps[d.index][<<b.x + q[1] - dx, b.y + q[2] - dy>>]
                   ELSE Clear
         IN  IF c[4] = 255 THEN c
             ELSE PackPixel(temps, frameBounds, draws, fill, k - 1, q)

\* the computation of handleSmartCrop's deferred callback, from the frames
\* and the image it reads to the new sheet and the intermediate results
SmartCrop(img, rows, cols, fs) ==
    LET fw    == img.w \div cols
        fh    == img.h \div rows
        ovs   == OverrideImages(fs)
        temps == [i \in 1 .. Len(fs) |-> RenderFrameToTemp(img, cols, fw, fh, ovs, fs[i])]
        first == RenderFrameToTemp(img, cols, fw, fh, ovs, FirstVisibleFrame(fs))[<<0, 0>>]
        bgPixel == <<first[1], first[2], first[3]>>
        frameBounds == FrameBounds(temps, fs, fw, fh, bgPixel)
        cell  == OutputCell(frameBounds, fw, fh)
        draws == PackLoop(fs, frameBounds, cols, cell, 1, 0)
        fill  == <<bgPixel[1], bgPixel[2], bgPixel[3], 255>>
    IN  [frameW |-> fw, frameH |-> fh, bgPixel |-> bgPixel,
         frameBounds |-> frameBounds, cell |-> cell, draws |-> draws,
         out |-> [w |-> cell.w * cols, h |-> cell.h * rows,
                  pix |-> [q \in Coords(cell.w * cols, cell.h * rows) |->
                             PackPixel(temps, frameBounds, draws, fill, Len(draws), q)]]]

(* ------------------------------- state -------------------------------- *)

VARIABLES
    \* SpritePreview
    config,             \* [rows, cols, fps, isPlaying, activeFrameCount]
    originalImageUrl,   \* prop: the sheet generated or imported
    modifiedImageUrl,   \* NoImage for null
    loadedImage,        \* NoImage for null
    viewingOriginal,
    isEditorOpen,
    previewLoads,       \* image loads started by the preview, not yet complete
    psteps,             \* preview operations made so far
    frameIndex,         \* the frame cursor of the animation
    lastTime,           \* the animation effect's local: time of the last advance
    clock,              \* the timestamp of the latest animation callback
    playStart,          \* the time at which the animation effect started
    advances,           \* cursor advances made since playStart
    probe,              \* the arguments of a classifier call under examination
    verdict,            \* its results
    \* FrameEditor
    frames,
    selectedFrameId,    \* NULL or a frame id
    draggedIndex,       \* NULL or a 0-based array index
    isProcessing,
    currentImageSrc,
    sourceImageRef,     \* NoImage for null
    pendingLoads,       \* image loads started by the editor, with what their
                        \* onload handler captured
    redrawPrompt,       \* TRUE iff the prompt holds non-blank text
    isGeneratingVar,
    variations,
    genPending,         \* the redraw requests in flight: {} or one record
    cropPc,             \* "idle", "timer" (setTimeout pending), "preload"
    cropFrames,         \* the frames the deferred callback captured
    cropImg,            \* the image the deferred callback read
    pendingSaves,       \* handleSave calls awaiting their override images
    steps,              \* editor operations made so far
    last                \* the last operation and what it read and produced

\* the animation loop and the classifier probe: no operation of the editor
\* or of the preview's controls writes them
restVars == <<frameIndex, lastTime, clock, playStart, advances, probe, verdict>>

\* everything the editor's operations leave alone unless they save or close
previewVars == <<config, originalImageUrl, modifiedImageUrl, loadedImage,
                 viewingOriginal, isEditorOpen, previewLoads, psteps, restVars>>

editorVars == <<frames, selectedFrameId, draggedIndex, isProcessing,
                currentImageSrc, sourceImageRef, pendingLoads, redrawPrompt,
                isGeneratingVar, variations, genPending, cropPc, cropFrames,
                cropImg, pendingSaves, steps, last>>

\* the editor's variables other than the record of the last operation
editorState == <<frames, selectedFrameId, draggedIndex, isProcessing,
                 currentImageSrc, sourceImageRef, pendingLoads, redrawPrompt,
                 isGeneratingVar, variations, genPending, cropPc, cropFrames,
                 cropImg, pendingSaves, steps>>

vars == <<config, originalImageUrl, modifiedImageUrl, loadedImage,
          viewingOriginal, isEditorOpen, previewLoads, psteps,
          frameIndex, lastTime, clock, playStart, advances, probe, verdict,
          frames, selectedFrameId, draggedIndex, isProcessing,
          currentImageSrc, sourceImageRef, pendingLoads, redrawPrompt,
          isGeneratingVar, variations, genPending, cropPc, cropFrames,
          cropImg, pendingSaves, steps, last>>

\* the editor's props: rows={config.rows} cols={config.cols}
rows == config.rows

cols == config.cols

NoDraws == <<>>

NoCell == [w |-> 0, h |-> 0]

Op(name, a, b) ==
    [op |-> name, a |-> a, b |-> b, before |-> <<>>, img |-> NoImage,
     draws |-> NoDraws, bounds |-> <<>>, cell |-> NoCell, out |-> NoImage]

\* const targetUrl = viewingOriginal ? originalImageUrl : (modifiedImageUrl || originalImageUrl)
TargetUrl(viewOrig, orig, modif) ==
    IF viewOrig THEN orig ELSE IF modif # NoImage THEN modif ELSE orig

\* the image load the preview's effect starts: the branch is chosen when the
\* effect runs, the handler runs when the load completes
PreviewLoad(viewOrig, orig, modif) ==
    [img |-> TargetUrl(viewOrig, orig, modif),
     reset |-> (TargetUrl(viewOrig, orig, modif) = orig /\ modif = NoImage)]

\* the load the editor's effect starts; onload reads frames.length and
\* selectedFrameId from the render the effect belongs to
\* selectedFrameId from the render the effect belongs to; run tells apart
\* the loads of an effect that React runs more than once for one render
EditorLoad(img, fs, sel) ==
    [img |-> img, framesLen |-> Len(fs), selNull |-> (sel = NULL), run |-> 1]

\* the state of a FrameEditor that has just been mounted on imageUrl, its
\* initialising effect having run effectRuns times
EditorMountedRuns(imageUrl, effectRuns) ==
    /\ frames = <<>>
    /\ selectedFrameId = NULL
    /\ draggedIndex = NULL
    /\ isProcessing = FALSE
    /\ currentImageSrc = imageUrl
    /\ sourceImageRef = NoImage
    /\ pendingLoads = {[EditorLoad(imageUrl, <<>>, NULL) EXCEPT !.run = k] :
                          k \in 1 .. effectRuns}
    /\ redrawPrompt = FALSE
    /\ isGeneratingVar = FALSE
    /\ variations = <<>>
    /\ genPending = {}
    /\ cropPc = "idle"
    /\ cropFrames = <<>>
    /\ cropImg = NoImage
    /\ pendingSaves = {}
    /\ steps = 0
    /\ last = Op("mount", 0, 0)

EditorMounted(imageUrl) == EditorMountedRuns(imageUrl, 1)

NoProbe == [p |-> <<0, 0, 0>>, ref |-> <<0, 0, 0>>, tol1 |-> 0, tol2 |-> 0]

NoVerdict == [done |-> FALSE, self |-> FALSE, at1 |-> FALSE, at2 |-> FALSE]

\* the animation has not run and no classifier call is under examination
RestIdle ==
    /\ frameIndex = 0
    /\ lastTime = 0
    /\ clock = 0
    /\ playStart = 0
    /\ advances = 0
    /\ probe = NoProbe
    /\ verdict = NoVerdict

\* An editing session: the preview shows a sheet of one of the explored
\* grids and the editor has just been opened on it.
Init ==
    \E g \in Geometries, p \in 0 .. MaxPattern :
        LET sheet == Sheet(p, g[1], g[2], g[3], g[4]) IN
        /\ config = [rows |-> g[1], cols |-> g[2], fps |-> 8, isPlaying |-> TRUE,
                     activeFrameCount |-> g[1] * g[2]]
        /\ originalImageUrl = sheet
        /\ modifiedImageUrl = NoImage
        /\ loadedImage = sheet
        /\ viewingOriginal = FALSE
        /\ isEditorOpen = TRUE
        /\ previewLoads = {}
        /\ psteps = 0
        /\ RestIdle
        /\ EditorMounted(sheet)

(* --------------------------- editor: helpers -------------------------- *)

\* frames.find(f => f.id === selectedFrameId): the index of the first match, 0 if none
SelectedIndex(fs, sel) ==
    IF \E i \in 1 .. Len(fs) : fs[i].id = sel
    THEN SetMin({i \in 1 .. Len(fs) : fs[i].id = sel})
    ELSE 0

\* the right-hand controls are rendered only for a selected frame, and the
\* processing overlay covers the grid and the controls
ControlsUsable == isEditorOpen /\ ~isProcessing /\ SelectedIndex(frames, selectedFrameId) # 0

GridUsable == isEditorOpen /\ ~isProcessing

\* mutant of UpdateFrame: a frame that the update marks deleted is removed
\* from the list instead of being flagged
UpdateFrameRemoves(fs, sel, updates) ==
    LET upd == [i \in 1 .. Len(fs) |->
                  IF fs[i].id = sel
                  THEN [k \in DOMAIN fs[i] |->
                          IF k \in DOMAIN updates THEN updates[k] ELSE fs[i][k]]
                  ELSE fs[i]]
        keep(f) == ~f.isDeleted
    IN  SelectSeq(upd, keep)

\* prev.map(f => f.id === selectedFrameId ? { ...f, ...updates } : f)
UpdateFrame(fs, sel, updates) ==
    [i \in 1 .. Len(fs) |->
       IF fs[i].id = sel
       THEN [k \in DOMAIN fs[i] |-> IF k \in DOMAIN updates THEN updates[k] ELSE fs[i][k]]
       ELSE fs[i]]

\* handleUpdateFrame
HandleUpdateFrame(updates) ==
    frames' = IF selectedFrameId = NULL THEN frames
              ELSE UpdateFrame(frames, selectedFrameId, updates)

\* mutant of SwapFrames: the swap without the temporary, so that the dragged
\* record is overwritten and the target record appears twice
SwapFramesNoTemp(fs, a, b) ==
    [i \in 1 .. Len(fs) |-> IF i = a + 1 THEN fs[b + 1] ELSE fs[i]]

\* mutant of SwapFrames: only the ids change places, the other fields stay
SwapFramesIdsOnly(fs, a, b) ==
    [i \in 1 .. Len(fs) |-> IF i = a + 1 THEN [fs[i] EXCEPT !.id = fs[b + 1].id]
                            ELSE IF i = b + 1 THEN [fs[i] EXCEPT !.id = fs[a + 1].id]
                            ELSE fs[i]]

\* newFrames[draggedIndex] = newFrames[targetIndex]; newFrames[targetIndex] = temp
SwapFrames(fs, a, b) ==
    [i \in 1 .. Len(fs) |-> IF i = a + 1 THEN fs[b + 1]
                            ELSE IF i = b + 1 THEN fs[a + 1]
                            ELSE fs[i]]

NeedsPreload(fs) ==
    \E i \in 1 .. Len(fs) : fs[i].overrideImage # NoOverride /\ ~fs[i].isDeleted

\* useEffect(..., [selectedFrameId]): setVariations([]); setRedrawPrompt('')
SelectionEffect(newSel) ==
    IF newSel # selectedFrameId
    THEN variations' = <<>> /\ redrawPrompt' = FALSE
    ELSE UNCHANGED <<variations, redrawPrompt>>

(* --------------------------- editor: actions -------------------------- *)

\* img.onload of the editor's initialising effect
LoadComplete ==
    \E l \in pendingLoads :
        /\ isEditorOpen
        /\ pendingLoads' = pendingLoads \ {l}
        /\ sourceImageRef' = l.img
        /\ frames' = IF l.framesLen # rows * cols THEN IdentityFrames(rows * cols)
                     ELSE frames
        /\ selectedFrameId' = IF l.selNull THEN 0 ELSE selectedFrameId
        /\ SelectionEffect(IF l.selNull THEN 0 ELSE selectedFrameId)
        /\ last' = [Op("load", 0, 0) EXCEPT !.before = frames, !.img = sourceImageRef,
                                          !.out = l.img]
        /\ UNCHANGED <<draggedIndex, isProcessing, currentImageSrc, isGeneratingVar,
                       genPending, cropPc, cropFrames, cropImg, pendingSaves, steps>>
        /\ UNCHANGED previewVars

\* onClick={() => setSelectedFrameId(frame.id)} on the thumbnail at arrayIndex
SelectFrame ==
    \E i \in 1 .. Len(frames) :
        /\ GridUsable
        /\ steps < MaxSteps
        /\ frames[i].id # selectedFrameId
        /\ selectedFrameId' = frames[i].id
        /\ SelectionEffect(frames[i].id)
        /\ steps' = steps + 1
        /\ last' = Op("select", i - 1, 0)
        /\ UNCHANGED <<frames, draggedIndex, isProcessing, currentImageSrc,
                       sourceImageRef, pendingLoads, isGeneratingVar, genPending,
                       cropPc, cropFrames, cropImg, pendingSaves>>
        /\ UNCHANGED previewVars

EditStep(name) ==
    /\ ControlsUsable
    /\ steps < MaxSteps
    /\ steps' = steps + 1
    /\ last' = [Op(name, SelectedIndex(frames, selectedFrameId) - 1, 0)
                  EXCEPT !.before = frames]
    /\ UNCHANGED <<selectedFrameId, draggedIndex, isProcessing, currentImageSrc,
                   sourceImageRef, pendingLoads, redrawPrompt, isGeneratingVar,
                   variations, genPending, cropPc, cropFrames, cropImg, pendingSaves>>
    /\ UNCHANGED previewVars

\* handleUpdateFrame({ rotation: (selectedFrame.rotation + 90) % 360 })
Rotate ==
    /\ EditStep("rotate")
    /\ HandleUpdateFrame(
         [rotation |->
            (frames[SelectedIndex(frames, selectedFrameId)].rotation + 90) % 360])

\* handleUpdateFrame({ flipH: !selectedFrame.flipH })
Flip ==
    /\ EditStep("flip")
    /\ HandleUpdateFrame(
         [flipH |-> ~frames[SelectedIndex(frames, selectedFrameId)].flipH])

\* handleUpdateFrame({ isDeleted: !selectedFrame.isDeleted })
ToggleDelete ==
    /\ EditStep("delete")
    /\ HandleUpdateFrame(
         [isDeleted |-> ~frames[SelectedIndex(frames, selectedFrameId)].isDeleted])

\* onClick={() => handleUpdateFrame({ overrideImage: v })} on a variation
ApplyVariation ==
    \E k \in 1 .. Len(variations) :
        /\ EditStep("override")
        /\ HandleUpdateFrame([overrideImage |-> variations[k]])

\* typing a prompt: onChange={(e) => setRedrawPrompt(e.target.value)}
TypePrompt ==
    /\ ControlsUsable
    /\ steps < MaxSteps
    /\ ~redrawPrompt
    /\ redrawPrompt' = TRUE
    /\ steps' = steps + 1
    /\ last' = Op("prompt", 0, 0)
    /\ UNCHANGED <<frames, selectedFrameId, draggedIndex, isProcessing,
                   currentImageSrc, sourceImageRef, pendingLoads, isGeneratingVar,
                   variations, genPending, cropPc, cropFrames, cropImg, pendingSaves>>
    /\ UNCHANGED previewVars

\* generateVariations up to its first await.  The button is disabled while
\* isGeneratingVar or while the prompt is blank.
GenerateClick ==
    /\ ControlsUsable
    /\ steps < MaxSteps
    /\ ~isGeneratingVar /\ redrawPrompt
    /\ sourceImageRef # NoImage
    /\ isGeneratingVar' = TRUE
    /\ variations' = <<>>
    /\ genPending' = {[for |-> selectedFrameId]}
    /\ steps' = steps + 1
    /\ last' = [Op("generate", 0, 0) EXCEPT !.before = frames]
    /\ UNCHANGED <<frames, selectedFrameId, draggedIndex, isProcessing,
                   currentImageSrc, sourceImageRef, pendingLoads, redrawPrompt,
                   cropPc, cropFrames, cropImg, pendingSaves>>
    /\ UNCHANGED previewVars

\* mutant of GenerateDone: when a request fails, the results of the requests
\* that succeeded are shown
GenerateDoneKeepsPartial ==
    \E g \in genPending, ok \in [1 .. NumVariations -> BOOLEAN] :
        LET results == [i \in 1 .. NumVariations |-> [for |-> g.for, req |-> i]]
            succeeded(v) == ok[v.req]
        IN
        /\ isEditorOpen
        /\ genPending' = {}
        /\ variations' = SelectSeq(results, succeeded)
        /\ isGeneratingVar' = FALSE
        /\ last' = [Op(IF \A i \in DOMAIN ok : ok[i] THEN "generated" ELSE "generateFailed",
                       g.for, 0) EXCEPT !.before = frames]
        /\ UNCHANGED <<frames, selectedFrameId, draggedIndex, isProcessing,
                       currentImageSrc, sourceImageRef, pendingLoads, redrawPrompt,
                       cropPc, cropFrames, cropImg, pendingSaves, steps>>
        /\ UNCHANGED previewVars

\* generateVariations after Promise.all: ok[i] tells whether request i
\* succeeded.  The three results are shown if all did; Promise.all rejects
\* if one failed and the catch branch shows nothing.  finally
\* setIsGeneratingVar(false)
GenerateDone ==
    \E g \in genPending, ok \in [1 .. NumVariations -> BOOLEAN] :
        /\ isEditorOpen
        /\ genPending' = {}
        /\ variations' = IF \A i \in DOMAIN ok : ok[i]
                         THEN [i \in 1 .. NumVariations |-> [for |-> g.for, req |-> i]]
                         ELSE variations
        /\ isGeneratingVar' = FALSE
        /\ last' = [Op(IF \A i \in DOMAIN ok : ok[i] THEN "generated" ELSE "generateFailed",
                       g.for, 0) EXCEPT !.before = frames]
        /\ UNCHANGED <<frames, selectedFrameId, draggedIndex, isProcessing,
                       currentImageSrc, sourceImageRef, pendingLoads, redrawPrompt,
                       cropPc, cropFrames, cropImg, pendingSaves, steps>>
        /\ UNCHANGED previewVars

\* handleDragStart
DragStart ==
    \E i \in 0 .. Len(frames) - 1 :
        /\ GridUsable
        /\ steps < MaxSteps
        /\ draggedIndex # i
        /\ draggedIndex' = i
        /\ steps' = steps + 1
        /\ last' = Op("dragStart", i, 0)
        /\ UNCHANGED <<frames, selectedFrameId, isProcessing, currentImageSrc,
                       sourceImageRef, pendingLoads, redrawPrompt, isGeneratingVar,
                       variations, genPending, cropPc, cropFrames, cropImg,
                       pendingSaves>>
        /\ UNCHANGED previewVars

\* handleDrop
HandleDrop ==
    \E targetIndex \in 0 .. Len(frames) - 1 :
        /\ GridUsable
        /\ steps < MaxSteps
        /\ IF draggedIndex = NULL \/ draggedIndex = targetIndex
           THEN UNCHANGED <<frames, draggedIndex>>
           ELSE /\ frames' = SwapFrames(frames, draggedIndex, targetIndex)
                /\ draggedIndex' = NULL
        /\ steps' = steps + 1
        /\ last' = [Op("drop", draggedIndex, targetIndex) EXCEPT !.before = frames]
        /\ UNCHANGED <<selectedFrameId, isProcessing, currentImageSrc,
                       sourceImageRef, pendingLoads, redrawPrompt, isGeneratingVar,
                       variations, genPending, cropPc, cropFrames, cropImg,
                       pendingSaves>>
        /\ UNCHANGED previewVars

(* ----------------------- editor: Repack & Center ---------------------- *)

\* mutant of RepackClick: the check of sourceImageRef.current is missing
RepackClickUnguarded ==
    /\ isEditorOpen
    /\ ~isProcessing
    /\ steps < MaxSteps
    /\ steps' = steps + 1
    /\ isProcessing' = TRUE
    /\ cropPc' = "timer"
    /\ cropFrames' = frames
    /\ last' = Op("repackClick", 0, 0)
    /\ UNCHANGED <<frames, selectedFrameId, draggedIndex, currentImageSrc,
                   sourceImageRef, pendingLoads, redrawPrompt, isGeneratingVar,
                   variations, genPending, cropImg, pendingSaves>>
    /\ UNCHANGED previewVars

\* handleSmartCrop up to setTimeout.  The button is disabled while isProcessing.
RepackClick ==
    /\ isEditorOpen
    /\ ~isProcessing
    /\ steps < MaxSteps
    /\ steps' = steps + 1
    /\ IF sourceImageRef = NoImage
       THEN /\ last' = Op("repackIgnored", 0, 0)
            /\ UNCHANGED <<isProcessing, cropPc, cropFrames>>
       ELSE /\ isProcessing' = TRUE
            /\ cropPc' = "timer"
            /\ cropFrames' = frames
            /\ last' = Op("repackClick", 0, 0)
    /\ UNCHANGED <<frames, selectedFrameId, draggedIndex, currentImageSrc,
                   sourceImageRef, pendingLoads, redrawPrompt, isGeneratingVar,
                   variations, genPending, cropImg, pendingSaves>>
    /\ UNCHANGED previewVars

\* mutant of RepackCommit: the new sheet becomes the source but the frame
\* records are left as they were
RepackCommitKeepsFrames(img) ==
    LET r == SmartCrop(img, rows, cols, cropFrames) IN
    /\ frames' = frames
    /\ currentImageSrc' = r.out
    /\ isProcessing' = FALSE
    /\ pendingLoads' = IF r.out # currentImageSrc
                       THEN pendingLoads \cup {EditorLoad(r.out, frames, selectedFrameId)}
                       ELSE pendingLoads
    /\ last' = [Op("repack", 0, 0) EXCEPT !.before = cropFrames, !.img = img,
                  !.draws = r.draws, !.bounds = r.frameBounds, !.cell = r.cell,
                  !.out = r.out]
    /\ UNCHANGED <<selectedFrameId, draggedIndex, sourceImageRef, redrawPrompt,
                   isGeneratingVar, variations, genPending, pendingSaves>>

\* the end of the deferred callback: the new sheet is computed from img and
\* the captured frames, the frames are reset and the sheet becomes the source
RepackCommit(img) ==
    LET r == SmartCrop(img, rows, cols, cropFrames) IN
    /\ frames' = IdentityFrames(rows * cols)
    /\ currentImageSrc' = r.out
    /\ isProcessing' = FALSE
    /\ pendingLoads' = IF r.out # currentImageSrc
                       THEN pendingLoads \cup
                              {EditorLoad(r.out, IdentityFrames(rows * cols), selectedFrameId)}
                       ELSE pendingLoads
    /\ last' = [Op("repack", 0, 0) EXCEPT !.before = cropFrames, !.img = img,
                  !.draws = r.draws, !.bounds = r.frameBounds, !.cell = r.cell,
                  !.out = r.out]
    /\ UNCHANGED <<selectedFrameId, draggedIndex, sourceImageRef, redrawPrompt,
                   isGeneratingVar, variations, genPending, pendingSaves>>

\* a drawing context could not be acquired: setIsProcessing(false); return
RepackAbort ==
    /\ isProcessing' = FALSE
    /\ last' = Op("repackAborted", 0, 0)
    /\ UNCHANGED <<frames, selectedFrameId, draggedIndex, currentImageSrc,
                   sourceImageRef, pendingLoads, redrawPrompt, isGeneratingVar,
                   variations, genPending, pendingSaves>>

\* the setTimeout callback starts: it reads sourceImageRef.current, acquires
\* the scratch context and, if no override image has to be loaded, runs to
\* its end in the same task
RepackTimer ==
    /\ isEditorOpen
    /\ cropPc = "timer"
    /\ steps' = steps
    /\ \E ctxOk \in BOOLEAN :
         IF ~ctxOk
         THEN RepackAbort /\ cropPc' = "idle" /\ UNCHANGED <<cropFrames, cropImg>>
         ELSE IF NeedsPreload(cropFrames)
         THEN /\ cropPc' = "preload"
              /\ cropImg' = sourceImageRef
              /\ UNCHANGED <<frames, selectedFrameId, draggedIndex, isProcessing,
                             currentImageSrc, sourceImageRef, pendingLoads,
                             redrawPrompt, isGeneratingVar, variations, genPending,
                             pendingSaves, cropFrames, last>>
         ELSE \E finalCtxOk \in BOOLEAN :
                /\ IF finalCtxOk THEN RepackCommit(sourceImageRef) ELSE RepackAbort
                /\ cropPc' = "idle"
                /\ UNCHANGED <<cropFrames, cropImg>>
    /\ UNCHANGED previewVars

\* the override images have loaded: the callback resumes and runs to its end
RepackPreloaded ==
    /\ isEditorOpen
    /\ cropPc = "preload"
    /\ steps' = steps
    /\ \E finalCtxOk \in BOOLEAN :
         IF finalCtxOk THEN RepackCommit(cropImg) ELSE RepackAbort
    /\ cropPc' = "idle"
    /\ UNCHANGED <<cropFrames, cropImg>>
    /\ UNCHANGED previewVars

(* ---------------------------- editor: Save ---------------------------- *)

\* handleSaveEdits, then the preview's image effect if its inputs changed
HandleSaveEdits(newImage) ==
    /\ modifiedImageUrl' = newImage
    /\ viewingOriginal' = FALSE
    /\ previewLoads' =
         IF newImage # modifiedImageUrl \/ viewingOriginal
         THEN previewLoads \cup {PreviewLoad(FALSE, originalImageUrl, newImage)}
         ELSE previewLoads

\* the end of handleSave: the draws, then onSave(canvas.toDataURL()); onClose()
SaveCommit(img, fs) ==
    LET out == SaveCanvas(img, rows, cols, fs) IN
    /\ HandleSaveEdits(out)
    /\ isEditorOpen' = FALSE
    /\ last' = [Op("save", 0, 0) EXCEPT !.before = fs, !.img = img,
                  !.draws = SaveDraws(fs), !.out = out]
    /\ UNCHANGED <<config, originalImageUrl, loadedImage, psteps, restVars>>

\* handleSave up to its first await; without override images to load it runs
\* to its end.  The Save button is never disabled.
SaveClick ==
    /\ isEditorOpen
    /\ steps < MaxSteps
    /\ steps' = steps + 1
    /\ \E ctxOk \in BOOLEAN :
         IF sourceImageRef = NoImage \/ ~ctxOk
         THEN /\ last' = Op("saveIgnored", 0, 0)
              /\ UNCHANGED pendingSaves
              /\ UNCHANGED previewVars
         ELSE IF NeedsPreload(frames)
         THEN /\ pendingSaves' = pendingSaves \cup {[img |-> sourceImageRef, fs |-> frames]}
              /\ last' = Op("saveClick", 0, 0)
              /\ UNCHANGED previewVars
         ELSE /\ SaveCommit(sourceImageRef, frames)
              /\ UNCHANGED pendingSaves
    /\ UNCHANGED <<frames, selectedFrameId, draggedIndex, isProcessing,
                   currentImageSrc, sourceImageRef, pendingLoads, redrawPrompt,
                   isGeneratingVar, variations, genPending, cropPc, cropFrames,
                   cropImg>>

\* the override images of a pending handleSave have loaded.  The call resumes
\* whether or not the editor is still mounted.
SavePreloaded ==
    \E sv \in pendingSaves :
        /\ SaveCommit(sv.img, sv.fs)
        /\ pendingSaves' = pendingSaves \ {sv}
        /\ UNCHANGED <<frames, selectedFrameId, draggedIndex, isProcessing,
                       currentImageSrc, sourceImageRef, pendingLoads, redrawPrompt,
                       isGeneratingVar, variations, genPending, cropPc, cropFrames,
                       cropImg, steps>>

\* mutant of Cancel: closing hands the editor's current sheet to the preview
CancelSavesCurrent ==
    /\ isEditorOpen
    /\ steps < MaxSteps
    /\ isEditorOpen' = FALSE
    /\ steps' = steps + 1
    /\ last' = Op("cancel", 0, 0)
    /\ HandleSaveEdits(currentImageSrc)
    /\ UNCHANGED <<frames, selectedFrameId, draggedIndex, isProcessing,
                   currentImageSrc, sourceImageRef, pendingLoads, redrawPrompt,
                   isGeneratingVar, variations, genPending, cropPc, cropFrames,
                   cropImg, pendingSaves>>
    /\ UNCHANGED <<config, originalImageUrl, loadedImage, psteps, restVars>>

\* Cancel: onClick={onClose}
Cancel ==
    /\ isEditorOpen
    /\ steps < MaxSteps
    /\ isEditorOpen' = FALSE
    /\ steps' = steps + 1
    /\ last' = Op("cancel", 0, 0)
    /\ UNCHANGED <<frames, selectedFrameId, draggedIndex, isProcessing,
                   currentImageSrc, sourceImageRef, pendingLoads, redrawPrompt,
                   isGeneratingVar, variations, genPending, cropPc, cropFrames,
                   cropImg, pendingSaves>>
    /\ UNCHANGED <<config, originalImageUrl, modifiedImageUrl, loadedImage,
                   viewingOriginal, previewLoads, psteps, restVars>>

Next ==
    \/ LoadComplete
    \/ SelectFrame
    \/ Rotate
    \/ Flip
    \/ ToggleDelete
    \/ ApplyVariation
    \/ TypePrompt
    \/ GenerateClick
    \/ GenerateDone
    \/ DragStart
    \/ HandleDrop
    \/ RepackClick
    \/ RepackTimer
    \/ RepackPreloaded
    \/ SaveClick
    \/ SavePreloaded
    \/ Cancel

Spec == Init /\ [][Next]_vars

\* An editing session in development mode: React's strict mode runs the
\* effects of a newly mounted component twice, so that the initialising
\* effect has started two loads, both from the first render.
InitStrict ==
    \E g \in Geometries :
        LET sheet == Sheet(1, g[1], g[2], g[3], g[4]) IN
        /\ config = [rows |-> g[1], cols |-> g[2], fps |-> 8, isPlaying |-> TRUE,
                     activeFrameCount |-> g[1] * g[2]]
        /\ originalImageUrl = sheet
        /\ modifiedImageUrl = NoImage
        /\ loadedImage = sheet
        /\ viewingOriginal = FALSE
        /\ isEditorOpen = TRUE
        /\ previewLoads = {}
        /\ psteps = 0
        /\ RestIdle
        /\ EditorMountedRuns(sheet, 2)

SpecStrict == InitStrict /\ [][Next]_vars

(* ------------------------ repack: termination ------------------------- *)

\* An override image of the pending repack fails to decode: its Image fires
\* onerror, for which the preload sets no handler, so the promise awaited by
\* the callback is never settled and the callback never resumes.
RepackPreloadFails ==
    /\ isEditorOpen
    /\ cropPc = "preload"
    /\ cropPc' = "never"
    /\ last' = Op("preloadFailed", 0, 0)
    /\ UNCHANGED <<frames, selectedFrameId, draggedIndex, isProcessing,
                   currentImageSrc, sourceImageRef, pendingLoads, redrawPrompt,
                   isGeneratingVar, variations, genPending, cropFrames, cropImg,
                   pendingSaves, steps>>
    /\ UNCHANGED previewVars

NextLive ==
    \/ Next
    \/ RepackPreloadFails

\* The timer fires, and an image that loads does load: the deferred callback
\* and its resumption are taken whenever they stay possible.
SpecLive ==
    /\ Init
    /\ [][NextLive]_vars
    /\ WF_vars(RepackTimer)
    /\ WF_vars(RepackPreloaded)

(* ============================ animation loop ========================== *)
(* The preview's playback effect on a loaded sheet of 2 x 3 cells limited  *)
(* to 3 frames.  Times are milliseconds; clock is the timestamp handed to  *)
(* the latest requestAnimationFrame callback (time since the page's time   *)
(* origin), playStart the time at which the effect ran.                    *)

\* const interval = 1000 / config.fps (exact for the rates explored)
Interval(fps) == 1000 \div fps

\* the times since the time origin at which playback starts
PlayStarts == {100, 1000}

\* the times between two callbacks
FrameGaps == {25, 100, 125}

InitPlayback ==
    LET sheet == Sheet(1, 2, 3, 2, 2) IN
    /\ config = [rows |-> 2, cols |-> 3, fps |-> 8, isPlaying |-> TRUE,
                 activeFrameCount |-> 3]
    /\ originalImageUrl = sheet
    /\ modifiedImageUrl = NoImage
    /\ loadedImage = sheet
    /\ viewingOriginal = FALSE
    /\ isEditorOpen = FALSE
    /\ previewLoads = {}
    /\ psteps = 0
    /\ frameIndex = 0
    /\ lastTime = 0
    /\ playStart \in PlayStarts
    /\ clock = playStart
    /\ advances = 0
    /\ probe = NoProbe
    /\ verdict = NoVerdict
    /\ EditorMountedRuns(NoImage, 0)

\* animate(timestamp), called back after gap further milliseconds
AnimationFrame ==
    \E gap \in FrameGaps :
        /\ config.isPlaying
        /\ loadedImage # NoImage
        /\ clock + gap - playStart <= MaxElapsed
        /\ clock' = clock + gap
        /\ IF clock' - lastTime >= Interval(config.fps)
           THEN /\ frameIndex' = (frameIndex + 1) % config.activeFrameCount
                /\ lastTime' = clock'
                /\ advances' = advances + 1
           ELSE UNCHANGED <<frameIndex, lastTime, advances>>
        /\ UNCHANGED <<playStart, probe, verdict>>
        /\ UNCHANGED <<config, originalImageUrl, modifiedImageUrl, loadedImage,
                       viewingOriginal, isEditorOpen, previewLoads, psteps>>
        /\ UNCHANGED editorVars

NextPlayback == AnimationFrame

SpecPlayback == InitPlayback /\ [][NextPlayback]_vars

(* ============================ grid addressing ========================= *)
(* The source rectangle of a cell, as renderFrameToTemp computes it from   *)
(* frame.id and as the preview's render effect computes it from the        *)
(* cursor, on images whose sides need not be multiples of the grid.        *)

\* const safeFrameIndex = frameIndex % (config.rows * config.cols)
SafeFrameIndex(cursor, nRows, nCols) == cursor % (nRows * nCols)

\* The source rectangle handed to drawImage.  frameW = img.width / cols and
\* frameH = img.height / rows are quotients of reals: x and w are held as
\* numerators over nCols, y and h as numerators over nRows.
SourceRect(index, nRows, nCols, w, h) ==
    [x |-> SrcCol(index, nCols) * w, y |-> SrcRow(index, nCols) * h,
     w |-> w, h |-> h]

\* widths and heights of the images explored
ImageSides == {1, 4, 10}

InitGrid ==
    /\ config = [rows |-> 1, cols |-> 1, fps |-> 8, isPlaying |-> TRUE,
                 activeFrameCount |-> 1]
    /\ originalImageUrl = NoImage
    /\ modifiedImageUrl = NoImage
    /\ loadedImage = NoImage
    /\ viewingOriginal = FALSE
    /\ isEditorOpen = FALSE
    /\ previewLoads = {}
    /\ psteps = 0
    /\ frameIndex = 0
    /\ lastTime = 0
    /\ clock = 0
    /\ playStart = 0
    /\ advances = 0
    /\ \E r \in 1 .. MaxGrid, c \in 1 .. MaxGrid, w \in ImageSides, h \in ImageSides :
         \E i \in 0 .. r * c - 1, wraps \in 0 .. 1 :
            probe = [rows |-> r, cols |-> c, w |-> w, h |-> h, id |-> i,
                     cursor |-> i + wraps * r * c]
    /\ verdict = [done |-> FALSE]
    /\ EditorMountedRuns(NoImage, 0)

\* both sites compute the cell of their index
Address ==
    /\ ~verdict.done
    /\ verdict' =
         [done |-> TRUE,
          col |-> SrcCol(probe.id, probe.cols),
          row |-> SrcRow(probe.id, probe.cols),
          rect |-> SourceRect(probe.id, probe.rows, probe.cols, probe.w, probe.h),
          safe |-> SafeFrameIndex(probe.cursor, probe.rows, probe.cols),
          previewRect |-> SourceRect(SafeFrameIndex(probe.cursor, probe.rows, probe.cols),
                                     probe.rows, probe.cols, probe.w, probe.h)]
    /\ UNCHANGED <<frameIndex, lastTime, clock, playStart, advances, probe>>
    /\ UNCHANGED <<config, originalImageUrl, modifiedImageUrl, loadedImage,
                   viewingOriginal, isEditorOpen, previewLoads, psteps>>
    /\ UNCHANGED editorVars

NextGrid == Address

SpecGrid == InitGrid /\ [][NextGrid]_vars

(* ============================== bounds scan =========================== *)
(* The per-frame scan of handleSmartCrop, pixel by pixel as the two loops   *)
(* run, on rendered cells of every content.                                 *)

RECURSIVE ScanLoopStride(_, _, _, _, _, _)
\* mutant of ScanLoop: every second pixel is examined
ScanLoopStride(data, fw, fh, bgPixel, k, acc) ==
    IF k >= fw * fh THEN acc
    ELSE LET x == k % fw
             y == k \div fw
         IN  IF ~IsBackground(data[<<x, y>>], bgPixel)
             THEN ScanLoopStride(data, fw, fh, bgPixel, k + 2,
                      [minX |-> IF x < acc.minX THEN x ELSE acc.minX,
                       maxX |-> IF x > acc.maxX THEN x ELSE acc.maxX,
                       minY |-> IF y < acc.minY THEN y ELSE acc.minY,
                       maxY |-> IF y > acc.maxY THEN y ELSE acc.maxY,
                       hasContent |-> TRUE])
             ELSE ScanLoopStride(data, fw, fh, bgPixel, k + 2, acc)

RECURSIVE ScanLoop(_, _, _, _, _, _)
\* for (y = 0; y < frameH; y++) for (x = 0; x < frameW; x++): k counts the
\* pixels visited, acc holds minX, minY, maxX, maxY and hasContent
ScanLoop(data, fw, fh, bgPixel, k, acc) ==
    IF k >= fw * fh THEN acc
    ELSE LET x == k % fw
             y == k \div fw
         IN  IF ~IsBackground(data[<<x, y>>], bgPixel)
             THEN ScanLoop(data, fw, fh, bgPixel, k + 1,
                      [minX |-> IF x < acc.minX THEN x ELSE acc.minX,
                       maxX |-> IF x > acc.maxX THEN x ELSE acc.maxX,
                       minY |-> IF y < acc.minY THEN y ELSE acc.minY,
                       maxY |-> IF y > acc.maxY THEN y ELSE acc.maxY,
                       hasContent |-> TRUE])
             ELSE ScanLoop(data, fw, fh, bgPixel, k + 1, acc)

\* let minX = frameW, minY = frameH, maxX = 0, maxY = 0; the scan; then the
\* record pushed on frameBounds
ScanBounds(data, fw, fh, bgPixel) ==
    LET acc == ScanLoop(data, fw, fh, bgPixel, 0,
                        [minX |-> fw, minY |-> fh, maxX |-> 0, maxY |-> 0,
                         hasContent |-> FALSE])
    IN  IF acc.hasContent
        THEN [x |-> acc.minX, y |-> acc.minY, w |-> acc.maxX - acc.minX + 1,
              h |-> acc.maxY - acc.minY + 1, hasContent |-> TRUE]
        ELSE NoBounds

\* the colours of the rendered cells scanned: near background and content
ScanColours == {Faint, Black}

InitScan ==
    /\ config = [rows |-> 1, cols |-> 1, fps |-> 8, isPlaying |-> TRUE,
                 activeFrameCount |-> 1]
    /\ originalImageUrl = NoImage
    /\ modifiedImageUrl = NoImage
    /\ loadedImage = NoImage
    /\ viewingOriginal = FALSE
    /\ isEditorOpen = FALSE
    /\ previewLoads = {}
    /\ psteps = 0
    /\ frameIndex = 0
    /\ lastTime = 0
    /\ clock = 0
    /\ playStart = 0
    /\ advances = 0
    /\ \E fw \in 1 .. MaxCell, fh \in 1 .. MaxCell :
         \E data \in [Coords(fw, fh) -> ScanColours] :
            probe = [fw |-> fw, fh |-> fh, data |-> data,
                     bgPixel |-> <<White[1], White[2], White[3]>>]
    /\ verdict = [done |-> FALSE]
    /\ EditorMountedRuns(NoImage, 0)

\* one rendered cell is scanned
Scan ==
    /\ ~verdict.done
    /\ verdict' = [done |-> TRUE,
                   bounds |-> ScanBounds(probe.data, probe.fw, probe.fh, probe.bgPixel)]
    /\ UNCHANGED <<frameIndex, lastTime, clock, playStart, advances, probe>>
    /\ UNCHANGED <<config, originalImageUrl, modifiedImageUrl, loadedImage,
                   viewingOriginal, isEditorOpen, previewLoads, psteps>>
    /\ UNCHANGED editorVars

NextScan == Scan

SpecScan == InitScan /\ [][NextScan]_vars

(* ======================== background classifier ======================= *)
(* isBackground applied to chosen pixels, reference pixels and tolerances. *)

\* pixels at channel distances 0, 25, 39, 40 and 255 of white
ProbePixels ==
    {<<255, 255, 255>>, <<230, 230, 230>>, <<216, 255, 255>>,
     <<215, 255, 255>>, <<0, 0, 0>>}

ProbeRefs == {<<255, 255, 255>>, <<230, 230, 230>>, <<0, 0, 0>>}

InitClassifier ==
    /\ config = [rows |-> 1, cols |-> 1, fps |-> 8, isPlaying |-> TRUE,
                 activeFrameCount |-> 1]
    /\ originalImageUrl = NoImage
    /\ modifiedImageUrl = NoImage
    /\ loadedImage = NoImage
    /\ viewingOriginal = FALSE
    /\ isEditorOpen = FALSE
    /\ previewLoads = {}
    /\ psteps = 0
    /\ frameIndex = 0
    /\ lastTime = 0
    /\ clock = 0
    /\ playStart = 0
    /\ advances = 0
    /\ \E c \in ProbePixels, r \in ProbeRefs, t1 \in 0 .. MaxTol, t2 \in 0 .. MaxTol :
         probe = [p |-> c, ref |-> r, tol1 |-> t1, tol2 |-> t2]
    /\ verdict = NoVerdict
    /\ EditorMountedRuns(NoImage, 0)

\* the classifier is asked about the reference pixel itself and about the
\* pixel at both tolerances
Classify ==
    /\ ~verdict.done
    /\ verdict' = [done |-> TRUE,
                   self |-> IsBackgroundAt(probe.ref, probe.ref, probe.tol1),
                   at1 |-> IsBackgroundAt(probe.p, probe.ref, probe.tol1),
                   at2 |-> IsBackgroundAt(probe.p, probe.ref, probe.tol2)]
    /\ UNCHANGED <<frameIndex, lastTime, clock, playStart, advances, probe>>
    /\ UNCHANGED <<config, originalImageUrl, modifiedImageUrl, loadedImage,
                   viewingOriginal, isEditorOpen, previewLoads, psteps>>
    /\ UNCHANGED editorVars

NextClassifier == Classify

SpecClassifier == InitClassifier /\ [][NextClassifier]_vars

(* ===================== the earlier FrameEditor ======================== *)
(* The copy of FrameEditor kept in SpritePreview.tsx has the same rotate   *)
(* button and, unlike the current one, two scale buttons.  Its transform   *)
(* controls are followed here on a loaded sheet.                           *)

\* mutant of ScaleDown: the lower clamp is missing
ScaleDownNoClamp(scale) == scale - ScaleStep

\* Math.max(0.5, selectedFrame.scale - 0.1)
ScaleDown(scale) == Max(ScaleMin, scale - ScaleStep)

\* Math.min(2.0, selectedFrame.scale + 0.1)
ScaleUp(scale) == Min(ScaleMax, scale + ScaleStep)

\* a loaded editor on a sheet of one column and two rows
InitOldEditor ==
    \E p \in 0 .. MaxPattern :
        LET sheet == Sheet(p, 2, 1, 10, 2) IN
        /\ config = [rows |-> 2, cols |-> 1, fps |-> 8, isPlaying |-> TRUE,
                     activeFrameCount |-> 2]
        /\ originalImageUrl = sheet
        /\ modifiedImageUrl = NoImage
        /\ loadedImage = sheet
        /\ viewingOriginal = FALSE
        /\ isEditorOpen = TRUE
        /\ previewLoads = {}
        /\ psteps = 0
        /\ RestIdle
        /\ frames = IdentityFrames(2)
        /\ selectedFrameId = 0
        /\ draggedIndex = NULL
        /\ isProcessing = FALSE
        /\ currentImageSrc = sheet
        /\ sourceImageRef = sheet
        /\ pendingLoads = {}
        /\ redrawPrompt = FALSE
        /\ isGeneratingVar = FALSE
        /\ variations = <<>>
        /\ genPending = {}
        /\ cropPc = "idle"
        /\ cropFrames = <<>>
        /\ cropImg = NoImage
        /\ pendingSaves = {}
        /\ steps = 0
        /\ last = Op("load", 0, 0)

\* a button of the transform panel, which is rendered for a selected frame
OldEditStep(name) ==
    /\ ControlsUsable
    /\ last' = [Op(name, SelectedIndex(frames, selectedFrameId) - 1, 0)
                  EXCEPT !.before = frames]
    /\ UNCHANGED <<selectedFrameId, draggedIndex, isProcessing, currentImageSrc,
                   sourceImageRef, pendingLoads, redrawPrompt, isGeneratingVar,
                   variations, genPending, cropPc, cropFrames, cropImg,
                   pendingSaves, steps>>
    /\ UNCHANGED previewVars

\* onClick={() => setSelectedFrameId(frame.id)}
OldSelectFrame ==
    \E i \in 1 .. Len(frames) :
        /\ GridUsable
        /\ frames[i].id # selectedFrameId
        /\ selectedFrameId' = frames[i].id
        /\ last' = Op("select", i - 1, 0)
        /\ UNCHANGED <<frames, draggedIndex, isProcessing, currentImageSrc,
                       sourceImageRef, pendingLoads, redrawPrompt, isGeneratingVar,
                       variations, genPending, cropPc, cropFrames, cropImg,
                       pendingSaves, steps>>
        /\ UNCHANGED previewVars

\* handleUpdateFrame({ rotation: (selectedFrame.rotation + 90) % 360 })
OldRotate ==
    /\ OldEditStep("rotate")
    /\ HandleUpdateFrame(
         [rotation |-> (frames[SelectedIndex(frames, selectedFrameId)].rotation + 90) % 360])

\* handleUpdateFrame({ scale: Math.max(0.5, selectedFrame.scale - 0.1) })
OldScaleDown ==
    /\ OldEditStep("scaleDown")
    /\ HandleUpdateFrame(
         [scale |-> ScaleDown(frames[SelectedIndex(frames, selectedFrameId)].scale)])

\* handleUpdateFrame({ scale: Math.min(2.0, selectedFrame.scale + 0.1) })
OldScaleUp ==
    /\ OldEditStep("scaleUp")
    /\ HandleUpdateFrame(
         [scale |-> ScaleUp(frames[SelectedIndex(frames, selectedFrameId)].scale)])

NextOldEditor ==
    \/ OldSelectFrame
    \/ OldRotate
    \/ OldScaleDown
    \/ OldScaleUp

SpecOldEditor == InitOldEditor /\ [][NextOldEditor]_vars

(* ------------- the earlier FrameEditor: delete, crop, save ------------- *)
(* A bounded session of the earlier copy on frames that its transform      *)
(* buttons have already edited.                                            *)

\* ctx.scale(frame.scale, frame.scale) about the centre of a side of n
\* pixels: the pixel whose centre the centre of pixel x comes from, the
\* draw being sampled at pixel centres (scale in tenths)
ScaledBack(x, scale, n) == ((2 * x + 1 - n) * 10 + n * scale) \div (2 * scale)

\* the colour the earlier copy's transformed drawImage puts on <<x, y>> of
\* the frame's cell, Clear if none
OldDrawnPixel(img, nCols, fw, fh, frame, x, y) ==
    LET uv == InvMap(frame.rotation, frame.flipH, fw, fh,
                     ScaledBack(x, frame.scale, fw), ScaledBack(y, frame.scale, fh))
    IN  IF InCell(uv, fw, fh)
        THEN FrameSourcePixel(img, nCols, fw, fh, <<>>, frame, uv[1], uv[2])
        ELSE Clear

\* frames.forEach((frame, outputIndex) => ...): a deleted frame is passed
\* over, the others are drawn in the cell outputIndex, their array index
OldDraws(fs) ==
    LET keep == {i \in 1 .. Len(fs) : ~fs[i].isDeleted}
        nth(j) == CHOOSE i \in keep : Cardinality({k \in keep : k < i}) = j - 1
    IN  [j \in 1 .. Cardinality(keep) |-> [cell |-> nth(j) - 1, index |-> nth(j)]]

RECURSIVE OldSavePixel(_, _, _, _, _, _, _, _)
\* the colour of pixel q of the earlier handleSave's canvas after k draws
OldSavePixel(img, nCols, fw, fh, fs, draws, k, q) ==
    IF k = 0 THEN Clear
    ELSE LET d  == draws[k]
             cx == (d.cell % nCols) * fw
             cy == (d.cell \div nCols) * fh
             c  == OldDrawnPixel(img, nCols, fw, fh, fs[d.index], q[1] - cx, q[2] - cy)
         IN  IF c[4] = 255 THEN c
             ELSE OldSavePixel(img, nCols, fw, fh, fs, draws, k - 1, q)

\* the earlier handleSave's canvas
OldSaveCanvas(img, nRows, nCols, fs) ==
    LET fw    == img.w \div nCols
        fh    == img.h \div nRows
        draws == OldDraws(fs)
    IN  [w |-> img.w, h |-> img.h,
         pix |-> [q \in Coords(img.w, img.h) |->
                    OldSavePixel(img, nCols, fw, fh, fs, draws, Len(draws), q)]]

\* for (y = 0; y < frameH; y += 2) for (x = 0; x < frameW; x += 2)
OldScannedPixels(fw, fh) == {q \in Coords(fw, fh) : q[1] % 2 = 0 /\ q[2] % 2 = 0}

\* the earlier handleSmartCrop's deferred callback: one bounding box over
\* all frames that are not deleted, padded, and every such frame's crop
\* copied to the cell of its array index on a sheet filled with background
OldSmartCrop(img, nRows, nCols, fs) ==
    LET fw      == img.w \div nCols
        fh      == img.h \div nRows
        first   == img.pix[<<0, 0>>]
        bgPixel == <<first[1], first[2], first[3]>>
        fill    == <<first[1], first[2], first[3], 255>>
        render(i) == [q \in Coords(fw, fh) |->
                        OldDrawnPixel(img, nCols, fw, fh, fs[i], q[1], q[2])]
        keep    == {i \in 1 .. Len(fs) : ~fs[i].isDeleted}
        content == UNION {{q \in OldScannedPixels(fw, fh) :
                              ~IsBackground(render(i)[q], bgPixel)} : i \in keep}
        minX    == IF content = {} THEN 0 ELSE SetMin({q[1] : q \in content})
        minY    == IF content = {} THEN 0 ELSE SetMin({q[2] : q \in content})
        maxX    == IF content = {} THEN fw ELSE SetMax({q[1] : q \in content})
        maxY    == IF content = {} THEN fh ELSE SetMax({q[2] : q \in content})
        x0      == Max(0, minX - padding)
        y0      == Max(0, minY - padding)
        newW    == Min(fw, maxX + padding) - x0
        newH    == Min(fh, maxY + padding) - y0
        draws   == OldDraws(fs)
        onTemp(i, x, y) == LET c == render(i)[<<x, y>>] IN IF c[4] = 255 THEN c ELSE fill
    IN  [draws |-> draws, cell |-> [w |-> newW, h |-> newH],
         out |-> [w |-> newW * nCols, h |-> newH * nRows,
                  pix |-> [q \in Coords(newW * nCols, newH * nRows) |->
                             LET i == (q[2] \div newH) * nCols + (q[1] \div newW) + 1 IN
                             IF i \in keep
                             THEN onTemp(i, x0 + (q[1] % newW), y0 + (q[2] % newH))
                             ELSE fill]]]

\* records that the rotate and scale buttons have produced on the first frame
OldEdits == {[rotation |-> 0, scale |-> 10], [rotation |-> 180, scale |-> 5],
             [rotation |-> 90, scale |-> 20]}

InitOldSession ==
    \E p \in 0 .. MaxPattern, ed \in OldEdits :
        LET sheet == Sheet(p, 2, 1, 10, 2) IN
        /\ config = [rows |-> 2, cols |-> 1, fps |-> 8, isPlaying |-> TRUE,
                     activeFrameCount |-> 2]
        /\ originalImageUrl = sheet
        /\ modifiedImageUrl = NoImage
        /\ loadedImage = sheet
        /\ viewingOriginal = FALSE
        /\ isEditorOpen = TRUE
        /\ previewLoads = {}
        /\ psteps = 0
        /\ RestIdle
        /\ frames = UpdateFrame(IdentityFrames(2), 0, ed)
        /\ selectedFrameId = 0
        /\ draggedIndex = NULL
        /\ isProcessing = FALSE
        /\ currentImageSrc = sheet
        /\ sourceImageRef = sheet
        /\ pendingLoads = {}
        /\ redrawPrompt = FALSE
        /\ isGeneratingVar = FALSE
        /\ variations = <<>>
        /\ genPending = {}
        /\ cropPc = "idle"
        /\ cropFrames = <<>>
        /\ cropImg = NoImage
        /\ pendingSaves = {}
        /\ steps = 0
        /\ last = Op("load", 0, 0)

\* handleUpdateFrame({ isDeleted: !selectedFrame.isDeleted })
OldToggleDelete ==
    /\ ControlsUsable
    /\ steps < MaxSteps
    /\ steps' = steps + 1
    /\ HandleUpdateFrame(
         [isDeleted |-> ~frames[SelectedIndex(frames, selectedFrameId)].isDeleted])
    /\ last' = [Op("delete", SelectedIndex(frames, selectedFrameId) - 1, 0)
                  EXCEPT !.before = frames]
    /\ UNCHANGED <<selectedFrameId, draggedIndex, isProcessing, currentImageSrc,
                   sourceImageRef, pendingLoads, redrawPrompt, isGeneratingVar,
                   variations, genPending, cropPc, cropFrames, cropImg, pendingSaves>>
    /\ UNCHANGED previewVars

\* the earlier handleSmartCrop up to its setTimeout
OldSmartCropClick ==
    /\ isEditorOpen
    /\ ~isProcessing
    /\ sourceImageRef # NoImage
    /\ steps < MaxSteps
    /\ steps' = steps + 1
    /\ isProcessing' = TRUE
    /\ cropPc' = "timer"
    /\ last' = Op("oldCropClick", 0, 0)
    /\ UNCHANGED <<frames, selectedFrameId, draggedIndex, currentImageSrc,
                   sourceImageRef, pendingLoads, redrawPrompt, isGeneratingVar,
                   variations, genPending, cropFrames, cropImg, pendingSaves>>
    /\ UNCHANGED previewVars

\* the deferred callback; the records it walks are those of the render in
\* which the button was pressed, which the overlay has kept unchanged
OldSmartCropTimer ==
    /\ isEditorOpen
    /\ cropPc = "timer"
    /\ cropPc' = "idle"
    /\ isProcessing' = FALSE
    /\ \E ctxOk \in BOOLEAN :
         IF ~ctxOk
         THEN /\ last' = Op("oldCropAborted", 0, 0)
              /\ UNCHANGED <<currentImageSrc, pendingLoads>>
         ELSE LET r == OldSmartCrop(sourceImageRef, rows, cols, frames) IN
              /\ currentImageSrc' = r.out
              /\ pendingLoads' = IF r.out # currentImageSrc
                                 THEN pendingLoads \cup {EditorLoad(r.out, frames, selectedFrameId)}
                                 ELSE pendingLoads
              /\ last' = [Op("oldCrop", 0, 0) EXCEPT !.before = frames,
                            !.img = sourceImageRef, !.draws = r.draws,
                            !.cell = r.cell, !.out = r.out]
    /\ UNCHANGED <<frames, selectedFrameId, draggedIndex, sourceImageRef, redrawPrompt,
                   isGeneratingVar, variations, genPending, cropFrames, cropImg,
                   pendingSaves, steps>>
    /\ UNCHANGED previewVars

\* img.onload of the earlier init effect: the records are always reset
OldLoadComplete ==
    \E l \in pendingLoads :
        /\ isEditorOpen
        /\ pendingLoads' = pendingLoads \ {l}
        /\ sourceImageRef' = l.img
        /\ frames' = IdentityFrames(rows * cols)
        /\ selectedFrameId' = IF l.selNull THEN 0 ELSE selectedFrameId
        /\ last' = [Op("load", 0, 0) EXCEPT !.before = frames, !.img = sourceImageRef,
                                          !.out = l.img]
        /\ UNCHANGED <<draggedIndex, isProcessing, currentImageSrc, redrawPrompt,
                       isGeneratingVar, variations, genPending, cropPc, cropFrames,
                       cropImg, pendingSaves, steps>>
        /\ UNCHANGED previewVars

\* the earlier handleSave: the draws, then onSave(canvas.toDataURL()); onClose()
OldSave ==
    /\ isEditorOpen
    /\ sourceImageRef # NoImage
    /\ steps < MaxSteps
    /\ steps' = steps + 1
    /\ \E ctxOk \in BOOLEAN :
         IF ~ctxOk
         THEN /\ last' = Op("saveIgnored", 0, 0)
              /\ UNCHANGED previewVars
         ELSE LET out == OldSaveCanvas(sourceImageRef, rows, cols, frames) IN
              /\ HandleSaveEdits(out)
              /\ isEditorOpen' = FALSE
              /\ last' = [Op("oldSave", 0, 0) EXCEPT !.before = frames,
                            !.img = sourceImageRef, !.draws = OldDraws(frames),
                            !.out = out]
              /\ UNCHANGED <<config, originalImageUrl, loadedImage, psteps, restVars>>
    /\ UNCHANGED <<frames, selectedFrameId, draggedIndex, isProcessing,
                   currentImageSrc, sourceImageRef, pendingLoads, redrawPrompt,
                   isGeneratingVar, variations, genPending, cropPc, cropFrames,
                   cropImg, pendingSaves>>

NextOldSession ==
    \/ OldSelectFrame
    \/ OldToggleDelete
    \/ OldSmartCropClick
    \/ OldSmartCropTimer
    \/ OldLoadComplete
    \/ OldSave

SpecOldSession == InitOldSession /\ [][NextOldSession]_vars

(* ============================ SpritePreview =========================== *)
(* The preview followed on its own: sheets arrive through originalImageUrl, *)
(* the user works the controls, and the editor is represented by what it   *)
(* hands back through onSave and onClose.  The editor's variables keep the *)
(* values of an instance that was never used.                              *)

\* the sizes <<width, height>> of the sheets the preview is given: one for
\* each branch of the grid heuristic
PreviewSizes == {<<4, 1>>, <<1, 4>>, <<2, 2>>, <<3, 2>>}

PreviewImages == {Sheet(0, 1, 1, s[1], s[2]) : s \in PreviewSizes}

\* aspect = img.width / img.height; let r = 1, c = 4; ...
GuessGrid(img) ==
    IF img.w > 3 * img.h THEN <<1, 6>>
    ELSE IF 100 * img.w < 33 * img.h THEN <<6, 1>>
    ELSE IF 5 * Abs(img.w - img.h) < img.h THEN <<2, 2>>
    ELSE <<1, 4>>

\* mutant of ResetConfig: the grid is guessed but the playback limit is kept
ResetConfigKeepsCount(prev, img) ==
    [prev EXCEPT !.rows = GuessGrid(img)[1], !.cols = GuessGrid(img)[2]]

\* setConfig(prev => ({...prev, rows: r, cols: c, activeFrameCount: r * c}))
ResetConfig(prev, img) ==
    [prev EXCEPT !.rows = GuessGrid(img)[1], !.cols = GuessGrid(img)[2],
                 !.activeFrameCount = GuessGrid(img)[1] * GuessGrid(img)[2]]

\* setConfig(prev => ({...prev, activeFrameCount: Math.min(prev.activeFrameCount, prev.rows * prev.cols)}))
ClampConfig(prev) ==
    [prev EXCEPT !.activeFrameCount = Min(prev.activeFrameCount, prev.rows * prev.cols)]

\* the image effect runs again when one of its dependencies has changed
ImageEffect(viewOrig, orig, modif) ==
    previewLoads' =
        IF <<viewOrig, orig, modif>> # <<viewingOriginal, originalImageUrl, modifiedImageUrl>>
        THEN previewLoads \cup {PreviewLoad(viewOrig, orig, modif)}
        ELSE previewLoads

\* Math.max(1, parseInt(e.target.value) || 1): text that is not a number
\* parses to NaN, and NaN and 0 are replaced by 1
GridInput(v, isNaN) == Max(1, IF isNaN \/ v = 0 THEN 1 ELSE v)

PreviewUsable == ~isEditorOpen /\ psteps < MaxPreviewSteps

InitPreview ==
    \E sheet \in PreviewImages :
        /\ config = [rows |-> 1, cols |-> 4, fps |-> 8, isPlaying |-> TRUE,
                     activeFrameCount |-> 4]
        /\ originalImageUrl = sheet
        /\ modifiedImageUrl = NoImage
        /\ loadedImage = NoImage
        /\ viewingOriginal = FALSE
        /\ isEditorOpen = FALSE
        /\ previewLoads = {PreviewLoad(FALSE, sheet, NoImage)}
        /\ psteps = 0
        /\ RestIdle
        /\ EditorMounted(NoImage)

\* img.onload of either branch of the image effect
PreviewLoadComplete ==
    \E l \in previewLoads :
        /\ loadedImage' = l.img
        /\ config' = IF l.reset THEN ResetConfig(config, l.img) ELSE ClampConfig(config)
        /\ previewLoads' = previewLoads \ {l}
        /\ UNCHANGED <<originalImageUrl, modifiedImageUrl, viewingOriginal,
                       isEditorOpen, psteps>>
        /\ last' = Op("preview", 0, 0)
        /\ UNCHANGED editorState
        /\ UNCHANGED restVars

\* App passes another sheet (a new generation or another imported file)
NewOriginal ==
    /\ psteps < MaxPreviewSteps
    /\ \E sheet \in PreviewImages \ {originalImageUrl} :
         /\ originalImageUrl' = sheet
         /\ ImageEffect(viewingOriginal, sheet, modifiedImageUrl)
    /\ psteps' = psteps + 1
    /\ UNCHANGED <<config, modifiedImageUrl, loadedImage, viewingOriginal, isEditorOpen>>
    /\ last' = Op("preview", 0, 0)
    /\ UNCHANGED editorState
    /\ UNCHANGED restVars

\* the Playback Limit slider: a range input between 1 and maxFrames
SetActiveFrameCount ==
    /\ PreviewUsable
    /\ \E v \in 1 .. config.rows * config.cols :
         config' = [config EXCEPT !.activeFrameCount = v]
    /\ psteps' = psteps + 1
    /\ UNCHANGED <<originalImageUrl, modifiedImageUrl, loadedImage, viewingOriginal,
                   isEditorOpen, previewLoads>>
    /\ last' = Op("preview", 0, 0)
    /\ UNCHANGED editorState
    /\ UNCHANGED restVars

\* mutant of SetRows: the playback limit is clamped to the new number of
\* cells instead of being set to it
SetRowsClamps ==
    /\ PreviewUsable
    /\ \E v \in -1 .. MaxDim, isNaN \in BOOLEAN :
         LET r == GridInput(v, isNaN) IN
         /\ config' = [config EXCEPT !.rows = r,
                          !.activeFrameCount = Min(config.activeFrameCount, r * config.cols)]
         /\ last' = [Op("setRows", r, 0) EXCEPT !.before = config]
    /\ psteps' = psteps + 1
    /\ UNCHANGED <<originalImageUrl, modifiedImageUrl, loadedImage, viewingOriginal,
                   isEditorOpen, previewLoads>>
    /\ UNCHANGED editorState
    /\ UNCHANGED restVars

\* the Rows input
SetRows ==
    /\ PreviewUsable
    /\ \E v \in -1 .. MaxDim, isNaN \in BOOLEAN :
         LET r == GridInput(v, isNaN) IN
         /\ config' = [config EXCEPT !.rows = r, !.activeFrameCount = r * config.cols]
         /\ last' = [Op("setRows", r, 0) EXCEPT !.before = config]
    /\ psteps' = psteps + 1
    /\ UNCHANGED <<originalImageUrl, modifiedImageUrl, loadedImage, viewingOriginal,
                   isEditorOpen, previewLoads>>
    /\ UNCHANGED editorState
    /\ UNCHANGED restVars

\* the Cols input
SetCols ==
    /\ PreviewUsable
    /\ \E v \in -1 .. MaxDim, isNaN \in BOOLEAN :
         LET c == GridInput(v, isNaN) IN
         /\ config' = [config EXCEPT !.cols = c, !.activeFrameCount = config.rows * c]
         /\ last' = [Op("setCols", c, 0) EXCEPT !.before = config]
    /\ psteps' = psteps + 1
    /\ UNCHANGED <<originalImageUrl, modifiedImageUrl, loadedImage, viewingOriginal,
                   isEditorOpen, previewLoads>>
    /\ UNCHANGED editorState
    /\ UNCHANGED restVars

\* the Original / Modified buttons, rendered once there is a modified image
SetViewingOriginal ==
    /\ PreviewUsable
    /\ modifiedImageUrl # NoImage
    /\ \E v \in BOOLEAN :
         /\ viewingOriginal' = v
         /\ ImageEffect(v, originalImageUrl, modifiedImageUrl)
    /\ psteps' = psteps + 1
    /\ UNCHANGED <<config, originalImageUrl, modifiedImageUrl, loadedImage, isEditorOpen>>
    /\ last' = Op("preview", 0, 0)
    /\ UNCHANGED editorState
    /\ UNCHANGED restVars

\* Refine & Crop: setIsEditorOpen(true)
OpenEditor ==
    /\ PreviewUsable
    /\ isEditorOpen' = TRUE
    /\ psteps' = psteps + 1
    /\ UNCHANGED <<config, originalImageUrl, modifiedImageUrl, loadedImage,
                   viewingOriginal, previewLoads>>
    /\ last' = Op("preview", 0, 0)
    /\ UNCHANGED editorState
    /\ UNCHANGED restVars

\* the editor's Save as the preview sees it: onSave(newImage), then onClose()
EditorOnSave ==
    /\ isEditorOpen
    /\ \E newImage \in PreviewImages : HandleSaveEdits(newImage)
    /\ isEditorOpen' = FALSE
    /\ UNCHANGED <<config, originalImageUrl, loadedImage, psteps>>
    /\ last' = Op("preview", 0, 0)
    /\ UNCHANGED editorState
    /\ UNCHANGED restVars

\* the editor's Cancel as the preview sees it: onClose()
EditorOnClose ==
    /\ isEditorOpen
    /\ isEditorOpen' = FALSE
    /\ UNCHANGED <<config, originalImageUrl, modifiedImageUrl, loadedImage,
                   viewingOriginal, previewLoads, psteps>>
    /\ last' = Op("preview", 0, 0)
    /\ UNCHANGED editorState
    /\ UNCHANGED restVars

NextPreview ==
    \/ PreviewLoadComplete
    \/ NewOriginal
    \/ SetActiveFrameCount
    \/ SetRows
    \/ SetCols
    \/ SetViewingOriginal
    \/ OpenEditor
    \/ EditorOnSave
    \/ EditorOnClose

SpecPreview == InitPreview /\ [][NextPreview]_vars

(* -------------------- playback under the controls --------------------- *)
(* The animation loop together with the controls that its effect depends   *)
(* on.  playStart and advances keep counting from the first start.         *)

\* The animation effect's dependencies are isPlaying, fps, activeFrameCount
\* and loadedImage: when one changes, the running loop is cancelled and, if
\* playing, a new one starts with let lastTime = 0.
AnimationEffect(newConfig) ==
    lastTime' = IF <<newConfig.isPlaying, newConfig.fps, newConfig.activeFrameCount>>
                   # <<config.isPlaying, config.fps, config.activeFrameCount>>
                THEN 0 ELSE lastTime

\* a control of the preview changes config; frameIndex is not touched
ControlStep(newConfig) ==
    /\ ~isEditorOpen
    /\ psteps < MaxControlSteps
    /\ psteps' = psteps + 1
    /\ config' = newConfig
    /\ AnimationEffect(newConfig)
    /\ last' = [Op("control", 0, 0) EXCEPT !.before = config]
    /\ UNCHANGED <<frameIndex, clock, playStart, advances, probe, verdict>>
    /\ UNCHANGED <<originalImageUrl, modifiedImageUrl, loadedImage, viewingOriginal,
                   isEditorOpen, previewLoads>>
    /\ UNCHANGED editorState

\* setConfig(prev => ({ ...prev, isPlaying: !prev.isPlaying }))
TogglePlaying == ControlStep([config EXCEPT !.isPlaying = ~@])

\* the playback limit slider: min 1, max rows * cols
SlideActiveFrameCount ==
    \E v \in 1 .. config.rows * config.cols :
        /\ v # config.activeFrameCount
        /\ ControlStep([config EXCEPT !.activeFrameCount = v])

\* the rows input, while the loop runs or is paused
TypeRows ==
    \E v \in 1 .. MaxDim :
        /\ GridInput(v, FALSE) # config.rows
        /\ ControlStep([config EXCEPT !.rows = GridInput(v, FALSE),
                                      !.activeFrameCount = GridInput(v, FALSE) * config.cols])

NextControls ==
    \/ AnimationFrame
    \/ TogglePlaying
    \/ SlideActiveFrameCount
    \/ TypeRows

SpecControls == InitPlayback /\ [][NextControls]_vars


(* ============================== claims ================================ *)

Deleted(fs) == {i \in 1 .. Len(fs) : fs[i].isDeleted}

(* C1: once the frame records are initialised, the ids of the records are a
   permutation of 0..rows*cols-1: every original cell index occurs exactly
   once, whatever swaps, updates, delete toggles, overrides and repacks have
   been made. *)
C1_IdsArePermutation ==
    frames # <<>> =>
        /\ Len(frames) = rows * cols
        /\ \A k \in 0 .. rows * cols - 1 :
             Cardinality({i \in 1 .. Len(frames) : frames[i].id = k}) = 1

\* a swap has just been made on records of which one is deleted and one rotated
C1_Witness ==
    /\ last.op = "drop" /\ last.a # NULL /\ last.a # last.b
    /\ \E i \in 1 .. Len(frames) : frames[i].id # i - 1
    /\ \E i \in 1 .. Len(frames) : frames[i].isDeleted \/ frames[i].rotation # 0

(* C5: from the moment the editor's image has loaded the frame sequence has
   exactly rows*cols records; a delete toggle changes nothing but the flag of
   the selected record, so toggling again restores it. *)
C5_LengthIsRowsTimesCols ==
    /\ sourceImageRef # NoImage => Len(frames) = rows * cols
    /\ last.op = "delete" =>
         /\ Len(frames) = Len(last.before)
         /\ \A i \in 1 .. Len(frames) :
              frames[i] = IF i = last.a + 1
                          THEN [last.before[i] EXCEPT !.isDeleted = ~@]
                          ELSE last.before[i]

\* a deleted frame has just been restored by a second toggle
C5_Witness ==
    /\ last.op = "delete"
    /\ last.before[last.a + 1].isDeleted
    /\ ~frames[last.a + 1].isDeleted
    /\ Len(frames) = rows * cols

(* C6: a drop on position b while position a # b is dragged leaves at a the
   record that was at b and at b the record that was at a, every field
   included, and every other position as it was; a drop with no drag in
   progress, or on the dragged position itself, changes nothing. *)
C6_DropSwapsWholeRecords ==
    last.op = "drop" =>
        IF last.a # NULL /\ last.a # last.b
        THEN /\ Len(frames) = Len(last.before)
             /\ frames[last.a + 1] = last.before[last.b + 1]
             /\ frames[last.b + 1] = last.before[last.a + 1]
             /\ \A i \in 1 .. Len(frames) :
                  (i # last.a + 1 /\ i # last.b + 1) => frames[i] = last.before[i]
        ELSE frames = last.before /\ draggedIndex = last.a

\* a swap has just moved a record that carries a transform
C6_Witness ==
    /\ last.op = "drop" /\ last.a # NULL /\ last.a # last.b
    /\ last.before[last.a + 1].rotation # 0 \/ last.before[last.b + 1].flipH

\* the j-th smallest element of a set of numbers
NthOf(S, j) == CHOOSE x \in S : Cardinality({y \in S : y < x}) = j - 1

NotDeleted(fs) == {i \in 1 .. Len(fs) : ~fs[i].isDeleted}

(* C2: for a frame state with k records marked deleted, Save draws exactly
   rows*cols - k frames; the j-th surviving record in display order is drawn
   at output cell j, so the cells used are 0..rows*cols-k-1 without a gap. *)
C2_SaveDrawsSurvivorsPacked ==
    last.op = "save" =>
        /\ Len(last.draws) = rows * cols - Cardinality(Deleted(last.before))
        /\ \A j \in 1 .. Len(last.draws) :
             /\ last.draws[j].cell = j - 1
             /\ last.draws[j].index = NthOf(NotDeleted(last.before), j)

\* a Save with a deleted record that is followed by a surviving one
C2_Witness ==
    /\ last.op = "save"
    /\ \E i, j \in 1 .. Len(last.before) :
         i < j /\ last.before[i].isDeleted /\ ~last.before[j].isDeleted

\* the scratch rendering of frame i of the last repack or Save
LastRender(i) ==
    RenderFrameToTemp(last.img, cols, last.img.w \div cols, last.img.h \div rows,
                      OverrideImages(last.before), last.before[i])

\* the background reference pixel of the last repack
LastBgPixel ==
    LET c == RenderFrameToTemp(last.img, cols, last.img.w \div cols,
                               last.img.h \div rows, OverrideImages(last.before),
                               FirstVisibleFrame(last.before))[<<0, 0>>]
    IN  <<c[1], c[2], c[3]>>

\* frame i of the last repack shows a pixel that is not background
ShowsContent(i) ==
    \E q \in Coords(last.img.w \div cols, last.img.h \div rows) :
        ~IsBackground(LastRender(i)[q], LastBgPixel)

(* C3 as stated: with k records marked deleted, repack draws exactly
   rows*cols - k frames, in the output cells 0..rows*cols-k-1. *)
C3_Original ==
    last.op = "repack" =>
        /\ Len(last.draws) = rows * cols - Cardinality(Deleted(last.before))
        /\ \A j \in 1 .. Len(last.draws) : last.draws[j].cell = j - 1

(* C3 amended: repack draws exactly the records that are not deleted and in
   whose rendering a non-background pixel is found; the j-th of them in
   display order is drawn in output cell j, so the cells used have no gap. *)
C3_RepackDrawsFramesWithContent ==
    last.op = "repack" =>
        LET drawn == {i \in NotDeleted(last.before) : ShowsContent(i)} IN
        /\ Len(last.draws) = Cardinality(drawn)
        /\ \A j \in 1 .. Len(last.draws) :
             /\ last.draws[j].cell = j - 1
             /\ last.draws[j].index = NthOf(drawn, j)

\* a repack that skipped a deleted record and a record without content, and
\* drew a record that comes after both
C3_Witness ==
    /\ last.op = "repack"
    /\ \E i, j, k \in 1 .. Len(last.before) :
         /\ i < k /\ j < k
         /\ last.before[i].isDeleted
         /\ ~last.before[j].isDeleted /\ ~ShowsContent(j)
         /\ \E d \in 1 .. Len(last.draws) : last.draws[d].index = k

(* C4: when a repack completes, the frame records are rows*cols identity
   records (ids in order, rotation 0, scale 1 (10 tenths), not flipped, not deleted, no
   override) whatever they were before, and the new sheet is the editor's
   current source image. *)
C4_RepackResetsFrames ==
    last.op = "repack" =>
        /\ Len(frames) = rows * cols
        /\ \A i \in 1 .. Len(frames) :
             /\ frames[i].id = i - 1
             /\ frames[i].rotation = 0
             /\ frames[i].scale = 10
             /\ ~frames[i].flipH
             /\ ~frames[i].isDeleted
             /\ frames[i].overrideImage = NoOverride
        /\ currentImageSrc = last.out
        /\ last.out.w = last.cell.w * cols /\ last.out.h = last.cell.h * rows

\* a repack has completed on records that were reordered and edited
C4_Witness ==
    /\ last.op = "repack"
    /\ \E i \in 1 .. Len(last.before) : last.before[i].id # i - 1
    /\ \E i \in 1 .. Len(last.before) :
         \/ last.before[i].rotation # 0 \/ last.before[i].flipH
         \/ last.before[i].isDeleted \/ last.before[i].overrideImage # NoOverride

(* C7 as stated: Save produces an image of the source sheet's pixel size in
   which cell j holds the rendering of the j-th non-deleted record (its own
   source cell or override, its own rotation and flip), and every cell after
   the last surviving frame is left unpopulated (transparent). *)
C7_Original ==
    last.op = "save" =>
        LET fw   == last.img.w \div cols
            fh   == last.img.h \div rows
            keep == NotDeleted(last.before)
        IN  /\ last.out.w = last.img.w
            /\ last.out.h = last.img.h
            /\ \A q \in Coords(last.out.w, last.out.h) :
                 LET c == (q[2] \div fh) * cols + (q[1] \div fw) IN
                 last.out.pix[q] =
                     IF c < Cardinality(keep)
                     THEN LastRender(NthOf(keep, c + 1))[<<q[1] % fw, q[2] % fh>>]
                     ELSE Clear

\* the content pixels of frame i of the last repack
ContentOf(i) ==
    {q \in Coords(last.img.w \div cols, last.img.h \div rows) :
        ~IsBackground(LastRender(i)[q], LastBgPixel)}

ContentW(i) == SetMax({q[1] : q \in ContentOf(i)}) - SetMin({q[1] : q \in ContentOf(i)}) + 1

ContentH(i) == SetMax({q[2] : q \in ContentOf(i)}) - SetMin({q[2] : q \in ContentOf(i)}) + 1

(* C8: repack's output cell width is min(cellW, maxContentW + 2*4), where
   maxContentW is the largest content width over the non-deleted frames that
   have content, and the height likewise; when no frame has content the
   output cell is the original cell. The output cell is positive, never
   larger than the original cell, and the new sheet measures
   outputCellW*cols by outputCellH*rows. *)
C8_OutputCellSize ==
    last.op = "repack" =>
        LET fw    == last.img.w \div cols
            fh    == last.img.h \div rows
            found == {i \in NotDeleted(last.before) : ContentOf(i) # {}}
        IN  /\ IF found = {}
               THEN last.cell = [w |-> fw, h |-> fh]
               ELSE /\ last.cell.w = Min(fw, SetMax({ContentW(i) : i \in found}) + 2 * 4)
                    /\ last.cell.h = Min(fh, SetMax({ContentH(i) : i \in found}) + 2 * 4)
            /\ last.cell.w > 0 /\ last.cell.w <= fw
            /\ last.cell.h > 0 /\ last.cell.h <= fh
            /\ last.out.w = last.cell.w * cols
            /\ last.out.h = last.cell.h * rows

\* a repack whose output cell is narrower than the original cell
C8_Witness ==
    /\ last.op = "repack"
    /\ \E i \in NotDeleted(last.before) : ContentOf(i) # {}
    /\ last.cell.w < last.img.w \div cols

(* C9 as stated: when repack finds no non-background pixel in any non-deleted
   frame, the output keeps the original cell size and the full cell of every
   non-deleted frame is carried into the output unchanged. *)
C9_Original ==
    (last.op = "repack" /\ \A i \in NotDeleted(last.before) : ContentOf(i) = {}) =>
        LET fw == last.img.w \div cols
            fh == last.img.h \div rows
        IN  /\ last.cell = [w |-> fw, h |-> fh]
            /\ \A i \in NotDeleted(last.before) :
                 \E c \in 0 .. rows * cols - 1 :
                    \A q \in Coords(fw, fh) :
                       last.out.pix[<<(c % cols) * fw + q[1], (c \div cols) * fh + q[2]>>]
                           = LastRender(i)[q]

(* C10: in SpritePreview, activeFrameCount is in [1, rows*cols] in every
   reachable state, after any sequence of original or modified image loads,
   rows or cols edits, playback-limit changes, saves from the editor and
   switches between the original and the modified view. *)
C10_ActiveFrameCountInRange ==
    /\ config.activeFrameCount >= 1
    /\ config.activeFrameCount <= config.rows * config.cols

\* the modified image is loaded on a grid the user has changed, and the
\* playback limit is below the number of cells
C10_Witness ==
    /\ modifiedImageUrl # NoImage
    /\ loadedImage = modifiedImageUrl
    /\ previewLoads = {}
    /\ config.rows * config.cols \notin {4, 6}
    /\ config.activeFrameCount < config.rows * config.cols

(* C11 as stated: after a rows or cols edit that lowers rows*cols,
   activeFrameCount is the minimum of its previous value and the new
   rows*cols, so a playback limit that is still valid is kept. *)
C11_Original ==
    (/\ last.op \in {"setRows", "setCols"}
     /\ config.rows * config.cols < last.before.rows * last.before.cols) =>
        config.activeFrameCount =
            Min(last.before.activeFrameCount, config.rows * config.cols)

(* C11 amended: after a rows or cols edit, the edited dimension is the typed
   number raised to at least 1, the other dimension is unchanged and
   activeFrameCount is the new rows*cols, whatever the playback limit was. *)
C11_GridEditResetsLimit ==
    /\ last.op = "setRows" =>
         /\ config.rows = last.a /\ config.rows >= 1
         /\ config.cols = last.before.cols
         /\ config.activeFrameCount = config.rows * config.cols
    /\ last.op = "setCols" =>
         /\ config.cols = last.a /\ config.cols >= 1
         /\ config.rows = last.before.rows
         /\ config.activeFrameCount = config.rows * config.cols

\* a grid edit has lowered rows*cols while the playback limit was below the
\* new number of cells
C11_Witness ==
    /\ last.op \in {"setRows", "setCols"}
    /\ config.rows * config.cols < last.before.rows * last.before.cols
    /\ last.before.activeFrameCount < config.rows * config.cols

(* C14: closing the editor with Cancel commits nothing.  Every step of an
   editing session other than the completion of a Save leaves the preview's
   modified image, its viewingOriginal flag and its configuration as they
   were, so after any edits, swaps, deletions, overrides and repacks followed
   by Cancel they are what they were when the editor was opened. *)
C14_OnlySaveCommits ==
    [][last'.op # "save" =>
         /\ modifiedImageUrl' = modifiedImageUrl
         /\ viewingOriginal' = viewingOriginal
         /\ config' = config]_vars

\* the editor was closed with Cancel after a repack had replaced its sheet,
\* and the preview has no modified image
C14_Witness ==
    /\ last.op = "cancel"
    /\ ~isEditorOpen
    /\ currentImageSrc # originalImageUrl
    /\ modifiedImageUrl = NoImage

(* C15: generateVariations leaves every frame record unchanged; when it
   finishes the variations list is empty (a request failed) or holds exactly
   3 results, result i coming from request i, and the generating indicator is
   cleared in both cases. *)
C15_RedrawAllOrNothing ==
    /\ last.op \in {"generate", "generated", "generateFailed"} => frames = last.before
    /\ last.op = "generated" =>
         /\ ~isGeneratingVar
         /\ Len(variations) = 3
         /\ \A i \in 1 .. 3 : variations[i] = [for |-> last.a, req |-> i]
    /\ last.op = "generateFailed" =>
         /\ ~isGeneratingVar
         /\ variations = <<>>

\* a redraw has finished with its three results on frames that were edited
C15_Witness ==
    /\ last.op = "generated"
    /\ Len(variations) = 3
    /\ frames # IdentityFrames(rows * cols)

(* C16 as stated: while a repack is in progress (isProcessing set), no other
   operation of the editing session is accepted: no frame update, swap,
   delete toggle, override assignment, second repack or Save. *)
C16_Original ==
    isProcessing =>
        last.op \notin {"rotate", "flip", "delete", "override", "drop",
                        "saveClick", "save"}

(* C17: while the editor's source image has not finished loading, repack and
   Save are no-ops: the frame records, the current image source, the busy
   indicators and the preview's modified image are as they were when the
   editor was mounted, nothing is pending, and the editor is still open
   unless it was cancelled (neither onSave nor onClose was called). *)
C17_NoOpsBeforeLoad ==
    sourceImageRef = NoImage =>
        /\ frames = <<>>
        /\ currentImageSrc = originalImageUrl
        /\ ~isProcessing /\ cropPc = "idle"
        /\ ~isGeneratingVar /\ genPending = {}
        /\ pendingSaves = {}
        /\ modifiedImageUrl = NoImage
        /\ isEditorOpen \/ last.op = "cancel"

\* before the image has loaded, a repack and a Save have been asked for
C17_Witness ==
    /\ sourceImageRef = NoImage
    /\ steps = 2
    /\ last.op \in {"repackIgnored", "saveIgnored"}
    /\ isEditorOpen

(* C18 as stated: once records exist for the current rows*cols, the
   completion of a further load of the image that is already loaded, the
   geometry being unchanged (a duplicate run of the effect), leaves every
   record's transform, deleted flag, override and position unchanged. *)
C18_Original ==
    (/\ last.op = "load"
     /\ Len(last.before) = rows * cols
     /\ last.img = last.out) =>
        frames = last.before

(* C19: in every reachable state every frame record has its rotation in
   {0, 90, 180, 270} and its scale in [0.5, 2.0] (5 to 20 tenths); the rotate
   action steps 0 -> 90 -> 180 -> 270 -> 0, and the scale down and up actions
   move by 0.1 and stop at 0.5 and 2.0. *)
C19_RotationAndScaleInRange ==
    /\ \A i \in 1 .. Len(frames) :
         /\ frames[i].rotation \in {0, 90, 180, 270}
         /\ frames[i].scale >= 5 /\ frames[i].scale <= 20
    /\ last.op = "rotate" =>
         LET old == last.before[last.a + 1].rotation
             new == frames[last.a + 1].rotation
         IN  <<old, new>> \in {<<0, 90>>, <<90, 180>>, <<180, 270>>, <<270, 0>>}
    /\ last.op = "scaleDown" =>
         frames[last.a + 1].scale =
             IF last.before[last.a + 1].scale = 5 THEN 5
             ELSE last.before[last.a + 1].scale - 1
    /\ last.op = "scaleUp" =>
         frames[last.a + 1].scale =
             IF last.before[last.a + 1].scale = 20 THEN 20
             ELSE last.before[last.a + 1].scale + 1

\* scale down was asked for on a frame already at 0.5, another frame being
\* at 2.0 and rotated
C19_Witness ==
    /\ last.op = "scaleDown"
    /\ last.before[last.a + 1].scale = 5
    /\ frames[last.a + 1].scale = 5
    /\ \E i \in 1 .. Len(frames) : frames[i].scale = 20 /\ frames[i].rotation = 270

(* C20, as stated: the classifier is true of the reference pixel itself at
   every tolerance tol >= 0, and a pixel that is background at tol1 is
   background at every tol2 >= tol1. *)
C20_Original ==
    verdict.done =>
        /\ probe.tol1 >= 0 => verdict.self
        /\ (probe.tol1 <= probe.tol2 /\ verdict.at1) => verdict.at2

(* C20, amended: the classifier is true of the reference pixel itself at
   every tolerance tol > 0 (the comparison is strict, so at tolerance 0 no
   pixel is background), and a pixel that is background at tol1 is
   background at every tol2 >= tol1. *)
C20_ReflexiveAndMonotone ==
    verdict.done =>
        /\ probe.tol1 > 0 => verdict.self
        /\ probe.tol1 = 0 => ~verdict.self /\ ~verdict.at1
        /\ (probe.tol1 <= probe.tol2 /\ verdict.at1) => verdict.at2

\* at the code's tolerance 40 the reference is background and a pixel 40
\* away in one channel is not, but it is at tolerance 41
C20_Witness ==
    /\ verdict.done
    /\ probe.tol1 = threshold
    /\ probe.tol2 > probe.tol1
    /\ verdict.self
    /\ ~verdict.at1
    /\ verdict.at2

(* C12: with activeFrameCount = 3 on a sheet of 6 cells and fps = 8, when
   the callback arrives at exactly 375 ms of playback under an increasing
   clock, the cursor has advanced exactly 3 steps and is back at 0. *)
C12_Original ==
    (/\ config.activeFrameCount = 3
     /\ config.rows * config.cols = 6
     /\ config.fps = 8
     /\ clock - playStart = 375)
    => advances = 3 /\ frameIndex = 0

(* C13: for every increasing sequence of callback timestamps, the number of
   cursor advances made after an elapsed playback time T differs from
   floor(T / (1000 / fps)) by at most 1. *)
C13_Original ==
    Abs(advances - ((clock - playStart) \div Interval(config.fps))) <= 1

(* C21: for rows, cols >= 1 and an index in [0, rows*cols), with
   col = index mod cols and row = floor(index / cols): row*cols + col = index,
   0 <= row < rows, 0 <= col < cols, and the cell rectangle
   (col*cellW, row*cellH, cellW, cellH) lies inside the image.  The rectangle
   is compared after multiplying through by cols (resp. rows).  The preview
   addresses the same cell from its cursor reduced modulo rows*cols. *)
C21_GridAddressingInvertible ==
    verdict.done =>
        /\ verdict.row * probe.cols + verdict.col = probe.id
        /\ 0 <= verdict.row /\ verdict.row < probe.rows
        /\ 0 <= verdict.col /\ verdict.col < probe.cols
        /\ 0 <= verdict.rect.x
        /\ verdict.rect.x + verdict.rect.w <= probe.cols * probe.w
        /\ 0 <= verdict.rect.y
        /\ verdict.rect.y + verdict.rect.h <= probe.rows * probe.h
        /\ verdict.safe = probe.id
        /\ verdict.previewRect = verdict.rect

\* the last cell of a 3 x 4 grid on an image whose sides are not multiples
\* of the grid, addressed by a cursor that has wrapped
C21_Witness ==
    /\ verdict.done
    /\ probe.rows = 3 /\ probe.cols = 4
    /\ probe.w = 10 /\ probe.h = 10
    /\ probe.id = 11 /\ probe.cursor = 23
    /\ verdict.row = 2 /\ verdict.col = 3

(* C22: repack walks the frames in display order and advances the output
   position only for a frame it draws; the crop (w x h) of each drawn frame
   is put in the next cell at destX = cellX + (outputCellW - w)/2 and
   destY = cellY + (outputCellH - h)/2, and the drawn rectangle lies inside
   that cell on all four sides.  Positions are compared doubled, since destX
   and destY may end in .5. *)
C22_PlacementCentredInCell ==
    last.op = "repack" =>
        \A j \in 1 .. Len(last.draws) :
            LET d     == last.draws[j]
                b     == last.bounds[d.index]
                cellX == ((j - 1) % cols) * last.cell.w
                cellY == ((j - 1) \div cols) * last.cell.h
            IN  /\ d.cell = j - 1
                /\ j > 1 => last.draws[j - 1].index < d.index
                /\ b.hasContent /\ ~last.before[d.index].isDeleted
                /\ d.destX2 = 2 * cellX + (last.cell.w - b.w)
                /\ d.destY2 = 2 * cellY + (last.cell.h - b.h)
                /\ 2 * cellX <= d.destX2
                /\ d.destX2 + 2 * b.w <= 2 * (cellX + last.cell.w)
                /\ 2 * cellY <= d.destY2
                /\ d.destY2 + 2 * b.h <= 2 * (cellY + last.cell.h)

\* a repack that drew a second frame, after a skipped one, with room left on
\* both sides of a crop whose position ends in .5
C22_Witness ==
    /\ last.op = "repack"
    /\ \E j \in 2 .. Len(last.draws) :
         /\ last.draws[j].index > j
         /\ last.bounds[last.draws[j].index].w < last.cell.w
    /\ \E j \in 1 .. Len(last.draws) : last.draws[j].destX2 % 2 = 1

\* the pixels of the scanned cell that the classifier does not take for
\* background
ProbeContent ==
    {q \in Coords(probe.fw, probe.fh) : ~IsBackground(probe.data[q], probe.bgPixel)}

(* C23: the bounds scan of repack examines every pixel of the rendered cell
   and returns the smallest axis-aligned rectangle that covers every
   non-background pixel (x = minX, y = minY, w = maxX-minX+1,
   h = maxY-minY+1); hasContent is true iff there is a non-background pixel;
   a single non-background pixel is covered wherever it lies.  The result is
   the one ContentBounds gives in the editor's model. *)
C23_BoundsAreMinimalRectangle ==
    verdict.done =>
        LET b == verdict.bounds IN
        /\ b.hasContent <=> ProbeContent # {}
        /\ b = ContentBounds(probe.data, probe.fw, probe.fh, probe.bgPixel)
        /\ ProbeContent = {} => b = NoBounds
        /\ ProbeContent # {} =>
             /\ \A q \in ProbeContent :
                  /\ b.x <= q[1] /\ q[1] < b.x + b.w
                  /\ b.y <= q[2] /\ q[2] < b.y + b.h
             /\ \E q \in ProbeContent : q[1] = b.x
             /\ \E q \in ProbeContent : q[1] = b.x + b.w - 1
             /\ \E q \in ProbeContent : q[2] = b.y
             /\ \E q \in ProbeContent : q[2] = b.y + b.h - 1

\* a cell whose only content is one pixel at odd coordinates
C23_Witness ==
    /\ verdict.done
    /\ probe.fw = 3 /\ probe.fh = 3
    /\ ProbeContent = {<<1, 1>>}
    /\ verdict.bounds = [x |-> 1, y |-> 1, w |-> 1, h |-> 1, hasContent |-> TRUE]

(* C24: in the FrameEditor copy contained in SpritePreview.tsx, Save and
   Smart Crop pass over deleted frames without leaving a gap: the j-th
   record that is not deleted, in display order, is written to output
   cell j. *)
C24_Original ==
    last.op \in {"oldSave", "oldCrop"} =>
        \A j \in 1 .. Len(last.draws) :
            /\ last.draws[j].index = NthOf(NotDeleted(last.before), j)
            /\ last.draws[j].cell = j - 1

(* C25: every repack that is started eventually completes and clears the
   in-progress indicator, whether it commits or aborts, also when a drawing
   context cannot be acquired and when an override image never finishes
   loading.  Stated for as long as the editor stays open. *)
C25_Original ==
    (isProcessing /\ isEditorOpen) ~> (~isProcessing \/ ~isEditorOpen)

(* C26: the reset of the frame records by a repack and the replacement of
   the source image are never seen apart: there is no state in which a repack
   has reset the records while sourceImageRef, which the thumbnails and Save
   read, is still the image from before the repack; so a Save pressed at any
   time after a repack has completed exports from the repacked sheet. *)
C26_Original ==
    /\ last.op = "repack" => sourceImageRef = currentImageSrc
    /\ (last.op = "save" /\ ~NeedsPreload(last.before)) => last.img = currentImageSrc

(* C27: whenever the list of AI-redraw variations is not empty, its entries
   were generated from the frame that is selected now, so that applying a
   variation overrides the frame it was generated for, also when the
   selection changes while the requests are in flight. *)
C27_Original ==
    /\ \A i \in 1 .. Len(variations) : variations[i].for = selectedFrameId
    /\ last.op = "override" =>
         frames[last.a + 1].overrideImage.for = frames[last.a + 1].id

(* C28: in SpritePreview the playback cursor satisfies
   0 <= frameIndex < activeFrameCount in every reachable state, also after
   the playback limit or the grid has been reduced while playing or paused,
   so that the label 'Frame i/n' never shows i > n. *)
C28_Original ==
    0 <= frameIndex /\ frameIndex < config.activeFrameCount

(* C29: when SpritePreview receives a new original image it resets
   completely: the sheet that is previewed, opened in the editor and
   downloaded (the target URL) is the new original, not a modified sheet
   saved from the previous original, and the load that is started re-derives
   rows, cols and activeFrameCount for the new image. *)
C29_Original ==
    [][originalImageUrl' # originalImageUrl =>
         /\ TargetUrl(viewingOriginal', originalImageUrl', modifiedImageUrl')
              = originalImageUrl'
         /\ \A l \in previewLoads' \ previewLoads : l.reset]_vars

(* C30: in SpritePreview, once no image load is pending, the loaded image
   used for rendering is the image of the current target URL (the original
   when viewingOriginal, otherwise the modified sheet if there is one, else
   the original), in whatever order overlapping loads complete. *)
C30_Original ==
    previewLoads = {} =>
        loadedImage = TargetUrl(viewingOriginal, originalImageUrl, modifiedImageUrl)

====
